---- MODULE Spec2Model ----
(***************************************************************************)
(* A model of the bill splitting core of splitmybill: the BillSplitModel   *)
(* share calculation (data_model/split/billsplit.py), the manual per-item  *)
(* assignment of CLISplitter and the clarification loop of                 *)
(* SmartCLISplitter (interface/cli.py), the conversations of the Telegram  *)
(* bot (interface/telegram_bot.py) with the language model's retry loop    *)
(* (ai_services/llm/base.py), and the validators of the receipt data       *)
(* models (data_model/receipt) of splitmybill and of billsplitter.         *)
(*                                                                         *)
(* Money.  The code computes with decimal.Decimal under Python's default   *)
(* context: a floating decimal of 28 significant digits, ROUND_HALF_EVEN.  *)
(* TLC's integers are 32 bits wide, so the model keeps the arithmetic and  *)
(* its rounding mode but carries Prec significant digits: a Decimal is a   *)
(* record [c, e] standing for c * 10^e, kept normalized (no trailing zero  *)
(* in c, and [0, 0] for zero) so that equal records are equal numbers.     *)
(* Every sum, product and quotient is the exact result rounded half-even   *)
(* to Prec digits, as the code's is rounded to 28.                         *)
(***************************************************************************)
EXTENDS Integers, Sequences, FiniteSets, TLC

VARIABLES
    receipt,              \* the ReceiptModel handed to the splitter
    built,                \* a BillSplitModel has been constructed
    common_items,         \* BillSplitModel.common_items (Optional list)
    separate_items,       \* BillSplitModel.separate_items (Optional dict)
    participants,         \* BillSplitModel.participants / splitter.participants
    _participant_shares,  \* BillSplitModel._participant_shares (Optional dict)
    _tax_shares,          \* BillSplitModel._tax_shares (Optional dict)
    calc,                 \* outcome of the last calculate_shares: "never", "raised", "done"
    calls,                \* how many times calculate_shares has been called
    ret,                  \* what the last operation returned or raised
    pc,                   \* where collect_split stands: the input it waits for, or its end
    valid_indices,        \* CLISplitter.valid_indices
    item_idx,             \* position of _process_items in receipt.items
    typed,                \* the response read by _get_item_split when it runs alone
    log,                  \* the warnings logged by the last model construction
    output,               \* the last message printed to the user
    chat_history,         \* SmartCLISplitter.chat_history
    conversation,         \* ConversationHandler: the state of each user's conversation
    user_data,            \* context.user_data of each Telegram user
    history,              \* TelegramSplitter.llm.history, one list for the bot
    sender,               \* for each entry of history, the user whose update added it
    handled               \* the last Telegram update handled: its handler, how it
                          \* ended, what it replied and the split it displayed

vars == <<receipt, built, common_items, separate_items, participants,
          _participant_shares, _tax_shares, calc, calls, ret,
          pc, valid_indices, item_idx, typed, log, output, chat_history,
          conversation, user_data, history, sender, handled>>

\* The state of the BillSplitModel, and the state of the interface around it.
splitVars == <<built, common_items, separate_items,
               _participant_shares, _tax_shares, calc, calls>>
ifaceVars == <<pc, valid_indices, item_idx, typed, log, output, chat_history>>
\* The state of the Telegram bot.
botVars == <<conversation, user_data, history, sender, handled>>

---------------------------------------------------------------------------
\* Bounds of the model.
MaxItems == 2
MaxTaxes == 1
MaxCalls == 2
MaxRounds == 2

\* Significant digits carried by the modelled Decimal.
Prec == 4

Names == {"a", "b", "c"}
KeyNames == {"a", "b"}

---------------------------------------------------------------------------
\* Optional values (Python's None).
None == [isNone |-> TRUE, val |-> <<>>]
Some(v) == [isNone |-> FALSE, val |-> v]

\* The Telegram users talking to the bot, and the bot before any update:
\* no conversation, an empty user_data for everyone, an empty llm.history.
Users == {"A", "B"}
EmptyUserData == [participants |-> None, receipt_data |-> None,
                  chat_initialized |-> FALSE]
NoUpdate == [user |-> "", op |-> "", exc |-> "", attempts |-> <<>>,
             reply |-> "", shown |-> None]
BotIdle ==
    /\ conversation = [u \in Users |-> "NONE"]
    /\ user_data = [u \in Users |-> EmptyUserData]
    /\ history = <<>>
    /\ sender = <<>>
    /\ handled = NoUpdate

Range(s) == {s[i] : i \in DOMAIN s}
SeqsUpTo(S, n) == UNION {[1..k -> S] : k \in 0..n}

\* The number of times `p` occurs in the list `s`.
Count(p, s) == Cardinality({i \in DOMAIN s : s[i] = p})

\* The distinct elements of the list `s` in the order of their first
\* occurrence: the key order of a dict built by iterating over `s`.
RECURSIVE Keys(_)
Keys(s) ==
    IF s = <<>> THEN <<>>
    ELSE LET front == SubSeq(s, 1, Len(s) - 1)
             last == s[Len(s)]
         IN  IF last \in Range(front) THEN Keys(front)
             ELSE Append(Keys(front), last)

---------------------------------------------------------------------------
\* Decimal arithmetic.
Pow10Table ==
    <<1, 10, 100, 1000, 10000, 100000, 1000000, 10000000, 100000000, 1000000000>>
Pow10(k) == Pow10Table[k + 1]

AbsInt(x) == IF x < 0 THEN -x ELSE x

\* The number of decimal digits of n >= 0 (1 for 0).
NumDigits(n) ==
    IF n < 10000
    THEN (IF n < 100 THEN (IF n < 10 THEN 1 ELSE 2)
          ELSE (IF n < 1000 THEN 3 ELSE 4))
    ELSE IF n < 100000000
    THEN (IF n < 1000000 THEN (IF n < 100000 THEN 5 ELSE 6)
          ELSE (IF n < 10000000 THEN 7 ELSE 8))
    ELSE (IF n < 1000000000 THEN 9 ELSE 10)

\* The Decimal c * 10^e, normalized.
RECURSIVE Dec(_, _)
Dec(c, e) ==
    IF c = 0 THEN [c |-> 0, e |-> 0]
    ELSE IF c % 10 = 0 THEN Dec(c \div 10, e + 1)
    ELSE [c |-> c, e |-> e]

Zero == Dec(0, 0)

\* m >= 0 without its last d >= 1 digits, rounded half-even; `sticky` says
\* that the exact value has nonzero digits beyond those of m.
DropDigits(m, d, sticky) ==
    LET q == m \div Pow10(d)
        r == m % Pow10(d)
        half == Pow10(d) \div 2
    IN  IF r > half \/ (r = half /\ sticky) \/ (r = half /\ q % 2 = 1)
        THEN q + 1 ELSE q

\* The exact value c * 10^e rounded to Prec significant digits.
RoundPrec(c, e) ==
    LET d == NumDigits(AbsInt(c)) - Prec
    IN  IF d <= 0 THEN Dec(c, e)
        ELSE Dec((IF c < 0 THEN -1 ELSE 1) * DropDigits(AbsInt(c), d, FALSE), e + d)

DecNeg(a) == [c |-> -a.c, e |-> a.e]

\* a + b.  When the exponents lie so far apart that the operand of the
\* smaller one is below half a unit of the other's last digit, the sum
\* rounds to the other operand.
DecAdd(a, b) ==
    IF a.c = 0 THEN b
    ELSE IF b.c = 0 THEN a
    ELSE LET hi == IF a.e >= b.e THEN a ELSE b
             lo == IF a.e >= b.e THEN b ELSE a
             spread == hi.e - lo.e
         IN  IF NumDigits(AbsInt(hi.c)) + spread > 9 THEN hi
             ELSE RoundPrec(hi.c * Pow10(spread) + lo.c, lo.e)

DecSub(a, b) == DecAdd(a, DecNeg(b))

\* a * b
DecMul(a, b) == RoundPrec(a.c * b.c, a.e + b.e)

\* The exception Decimal division raises for a zero divisor.
DivZeroExc(a) == IF a.c = 0 THEN "InvalidOperation" ELSE "DivisionByZero"

\* a / b, b # 0: the dividend is scaled so that the integer quotient has a
\* digit or two more than Prec, and the remainder decides the rounding.
DecDiv(a, b) ==
    IF a.c = 0 THEN Zero
    ELSE LET A == AbsInt(a.c)
             B == AbsInt(b.c)
             k == Prec + NumDigits(B) - NumDigits(A) + 1
             Q == (A * Pow10(k)) \div B
             R == (A * Pow10(k)) % B
             d == NumDigits(Q) - Prec
             sign == IF (a.c < 0) = (b.c < 0) THEN 1 ELSE -1
         IN  Dec(sign * DropDigits(Q, d, R > 0), a.e - b.e - k + d)

\* Decimal / int, n # 0.
DecDivCount(a, n) == DecDiv(a, Dec(n, 0))

\* Comparisons, by the sign of the difference (rounding keeps the sign).
DecLess(a, b) == DecSub(a, b).c < 0
DecLeq(a, b) == DecSub(a, b).c <= 0
DecAbs(a) == [c |-> AbsInt(a.c), e |-> a.e]

\* sum(xs) of a list of Decimals: from the left, starting at 0.
RECURSIVE SumSeq(_)
SumSeq(s) ==
    IF s = <<>> THEN Zero
    ELSE DecAdd(SumSeq(SubSeq(s, 1, Len(s) - 1)), s[Len(s)])

\* sum(d.values()) of a dict whose keys were inserted in the order `keys`.
SumValues(f, keys) == SumSeq([i \in DOMAIN keys |-> f[keys[i]]])

\* sum(item.subtotal for item in items)
SumSubtotals(items) == SumSeq([i \in DOMAIN items |-> items[i].subtotal])

\* x after `x += y` has run k times.
RECURSIVE AddTimes(_, _, _)
AddTimes(x, y, k) == IF k = 0 THEN x ELSE AddTimes(DecAdd(x, y), y, k - 1)

\* The amounts the model draws from: 0.01, item subtotals, tax totals.
Cent == Dec(1, -2)
SubtotalValues == {Dec(-1, 0), Dec(1, 0)}
TaxValues == {Dec(-5, -1), Dec(14, -1)}

---------------------------------------------------------------------------
\* Data: items, receipts, and the fields a BillSplitModel is constructed from.
ItemNames == {"x", "y"}
Items == [name : ItemNames, subtotal : SubtotalValues]

\* calculate_shares reads nothing of an item but its subtotal, and nothing of
\* the receipt but taxes_and_fees: the splits and receipts drawn for the
\* engine alone carry one item name and no receipt items.
PlainItems == {i \in Items : i.name = "x"}
PlainItemLists == SeqsUpTo(PlainItems, MaxItems)
TaxLists == SeqsUpTo(TaxValues, MaxTaxes)
OptTaxLists == {None} \cup {Some(t) : t \in TaxLists}
EngineReceipts == [items : {Some(<<>>)}, taxes_and_fees : OptTaxLists]

OptCommon == {None} \cup {Some(l) : l \in PlainItemLists}
OptSeparate ==
    {None} \cup {Some(d) : d \in UNION {[K -> PlainItemLists] : K \in SUBSET KeyNames}}

\* The number of items a split holds, common and separate together.
ItemCount(ci, si) ==
    (IF ci.isNone THEN 0 ELSE Len(ci.val))
    + (IF si.isNone THEN 0
       ELSE Cardinality({<<k, i>> \in KeyNames \X (1..MaxItems) :
                            k \in DOMAIN si.val /\ i \in DOMAIN si.val[k]}))

SplitFields == {f \in OptCommon \X OptSeparate : ItemCount(f[1], f[2]) <= MaxItems}
\* Participant lists of up to as many entries as there are names: every list
\* of distinct names in every order, and lists that repeat a name.
ParticipantLists == SeqsUpTo(Names, Cardinality(Names))

---------------------------------------------------------------------------
\* BillSplitModel.

\* Python truthiness of an Optional list or dict: None and empty are false.
Truthy(opt) == ~opt.isNone /\ DOMAIN opt.val # {}

\* A faulty accumulation that opens a share for every key of separate_items,
\* participant or not.
AddSeparateAnyKey(shares, si, keys) ==
    [p \in DOMAIN shares \cup DOMAIN si.val |->
        IF p \in DOMAIN si.val
        THEN DecAdd(IF p \in DOMAIN shares THEN shares[p] ELSE Zero,
                    SumSubtotals(si.val[p]))
        ELSE shares[p]]

\* The separate items of `keys` added onto `shares`.
AddSeparate(shares, si, keys) ==
    [p \in DOMAIN shares |->
        IF p \in keys THEN DecAdd(shares[p], SumSubtotals(si.val[p]))
        ELSE shares[p]]

\* A faulty start that keeps what the cache held, so that a second
\* calculation adds onto the first.
KeepShares(old, ps) ==
    IF old.isNone \/ DOMAIN old.val # Range(ps) THEN [p \in Range(ps) |-> Zero]
    ELSE old.val

\* The first statement of _calculate_pretax_shares: whatever the cache `old`
\* held, the shares start again from zero for every participant.
ResetShares(old, ps) == [p \in Range(ps) |-> Zero]

\* A faulty common share: the whole common sum charged to each participant.
CommonUndivided(ci, ps) == SumSubtotals(ci.val)

\* common_per_person: the common items' subtotals over len(participants).
CommonPerPerson(ci, ps) == DecDivCount(SumSubtotals(ci.val), Len(ps))

\* _calculate_pretax_shares: the outcomes [exc, shares] it can end with, where
\* shares is what it has left in _participant_shares.  A key of separate_items
\* that is no participant raises KeyError when the loop comes to it; the keys
\* handled before it are those the dict happened to hold first.
CalculatePretaxShares(ci, si, ps, old) ==
    LET zeros == ResetShares(old, ps)
        commonSum == SumSubtotals(ci.val)
    IN  IF Truthy(ci) /\ Len(ps) = 0
        THEN {[exc |-> DivZeroExc(commonSum), shares |-> zeros]}
        ELSE LET withCommon ==
                     IF Truthy(ci)
                     THEN [p \in Range(ps) |->
                              AddTimes(zeros[p], CommonPerPerson(ci, ps),
                                       Count(p, ps))]
                     ELSE zeros
             IN  IF ~Truthy(si)
                 THEN {[exc |-> "", shares |-> withCommon]}
                 ELSE IF DOMAIN si.val \subseteq Range(ps)
                 THEN {[exc |-> "",
                        shares |-> AddSeparate(withCommon, si, DOMAIN si.val)]}
                 ELSE {[exc |-> "KeyError",
                        shares |-> AddSeparate(withCommon, si, done)] :
                          done \in SUBSET (DOMAIN si.val \cap Range(ps))}

\* A faulty tax share: the whole tax charged to each participant.
TaxShareFlat(share, total_pretax, total_tax) == total_tax

\* The tax share of one participant: (share / total_pretax) * total_tax.
TaxShare(share, total_pretax, total_tax) ==
    DecMul(DecDiv(share, total_pretax), total_tax)

\* calculate_shares(receipt_data): the outcomes [exc, pshares, tshares] it can
\* end with, the two Optional dicts being what it leaves in the caches.
CalculateShares(ci, si, ps, rc, old, oldTax) ==
    {   IF o.exc # ""
        THEN [exc |-> o.exc, pshares |-> Some(o.shares), tshares |-> oldTax]
        ELSE IF rc.taxes_and_fees.isNone
        THEN [exc |-> "TypeError", pshares |-> Some(o.shares), tshares |-> oldTax]
        ELSE LET total_pretax == SumValues(o.shares, Keys(ps))
                 total_tax == SumSeq(rc.taxes_and_fees.val)
             IN  IF Len(ps) > 0 /\ total_pretax.c = 0
                 THEN [exc |-> DivZeroExc(o.shares[ps[1]]),
                       pshares |-> Some(o.shares), tshares |-> oldTax]
                 ELSE [exc |-> "", pshares |-> Some(o.shares),
                       tshares |-> Some([p \in Range(ps) |->
                           TaxShare(o.shares[p], total_pretax, total_tax)])]
        : o \in CalculatePretaxShares(ci, si, ps, old) }

\* The total_shares property, once both caches are set.
TotalShares(ps, pshares, tshares) ==
    [p \in Range(ps) |-> DecAdd(pshares.val[p], tshares.val[p])]

Returned(op, v) == [op |-> op, exc |-> "", val |-> v]
Raised(op, e) == [op |-> op, exc |-> e, val |-> <<>>]

---------------------------------------------------------------------------
\* The operations of a BillSplitModel.

\* BillSplitModel(common_items=ci, separate_items=si, participants=ps):
\* the fields carry no validator, so every construction succeeds.
Construct(ci, si, ps) ==
    /\ built' = TRUE
    /\ common_items' = ci
    /\ separate_items' = si
    /\ participants' = ps
    /\ _participant_shares' = None
    /\ _tax_shares' = None
    /\ ret' = Returned("BillSplitModel", <<>>)
    /\ UNCHANGED <<receipt, calc, calls>>
    /\ UNCHANGED ifaceVars
    /\ UNCHANGED botVars

NewBillSplit ==
    /\ pc = "engine"
    /\ ~built
    /\ \E f \in SplitFields, ps \in ParticipantLists : Construct(f[1], f[2], ps)

\* split.calculate_shares(receipt)
CallCalculateShares ==
    /\ pc = "engine"
    /\ built
    /\ calls < MaxCalls
    /\ calls' = calls + 1
    /\ \E o \in CalculateShares(common_items, separate_items, participants,
                                receipt, _participant_shares, _tax_shares) :
        /\ _participant_shares' = o.pshares
        /\ _tax_shares' = o.tshares
        /\ calc' = IF o.exc = "" THEN "done" ELSE "raised"
        /\ ret' = IF o.exc = "" THEN Returned("calculate_shares", <<>>)
                  ELSE Raised("calculate_shares", o.exc)
    /\ UNCHANGED <<receipt, built, common_items, separate_items, participants>>
    /\ UNCHANGED ifaceVars
    /\ UNCHANGED botVars

\* split.participant_shares: computes the pre-tax shares when none are cached.
GetParticipantShares ==
    /\ pc = "engine"
    /\ built
    /\ IF _participant_shares.isNone
       THEN \E o \in CalculatePretaxShares(common_items, separate_items,
                                           participants, _participant_shares) :
               /\ _participant_shares' = Some(o.shares)
               /\ ret' = IF o.exc = ""
                         THEN Returned("participant_shares", o.shares)
                         ELSE Raised("participant_shares", o.exc)
       ELSE /\ ret' = Returned("participant_shares", _participant_shares.val)
            /\ UNCHANGED _participant_shares
    /\ UNCHANGED <<receipt, built, common_items, separate_items, participants,
                   _tax_shares, calc, calls>>
    /\ UNCHANGED ifaceVars
    /\ UNCHANGED botVars

\* A faulty tax_shares without the guard: an empty mapping when nothing has
\* been calculated.
tax_shares_unguarded ==
    Returned("tax_shares", IF _tax_shares.isNone THEN <<>> ELSE _tax_shares.val)

\* split.tax_shares: what the property returns or raises in this state.
\* It reads the cache and changes nothing.
tax_shares ==
    IF _tax_shares.isNone THEN Raised("tax_shares", "ValueError")
    ELSE Returned("tax_shares", _tax_shares.val)

\* split.total_shares: what the property returns or raises in this state.
total_shares ==
    IF _participant_shares.isNone \/ _tax_shares.isNone
    THEN Raised("total_shares", "ValueError")
    ELSE Returned("total_shares",
                  TotalShares(participants, _participant_shares, _tax_shares))

\* A BillSplitModel on its own: any fields, any receipt, its operations in
\* any order.
InitEngine ==
    /\ receipt \in EngineReceipts
    /\ built = FALSE
    /\ common_items = None
    /\ separate_items = None
    /\ participants = <<>>
    /\ _participant_shares = None
    /\ _tax_shares = None
    /\ calc = "never"
    /\ calls = 0
    /\ ret = Returned("", <<>>)
    /\ pc = "engine"
    /\ valid_indices = <<>>
    /\ item_idx = 0
    /\ typed = <<>>
    /\ log = <<>>
    /\ output = ""
    /\ chat_history = <<>>
    /\ BotIdle

NextEngine ==
    \/ NewBillSplit
    \/ CallCalculateShares
    \/ GetParticipantShares

SpecEngine == InitEngine /\ [][NextEngine]_vars

---------------------------------------------------------------------------
\* CLISplitter: the manual path.  A split string is a sequence of
\* one-character strings.
MaxSplitLen == 3
SplitChars == {"1", "2", "3", ",", " ", "x"}
SplitStrings == SeqsUpTo(SplitChars, MaxSplitLen)
Digits == {"1", "2", "3"}
DigitValue(ch) == CASE ch = "1" -> 1 [] ch = "2" -> 2 [] ch = "3" -> 3

\* str.strip(): without the blanks at either end.
RECURSIVE Strip(_)
Strip(str) ==
    IF str = <<>> THEN str
    ELSE IF Head(str) = " " THEN Strip(Tail(str))
    ELSE IF str[Len(str)] = " " THEN Strip(SubSeq(str, 1, Len(str) - 1))
    ELSE str

\* str.split(","): the pieces between the commas, empty ones included.
RECURSIVE SplitOnComma(_)
SplitOnComma(str) ==
    IF \A i \in DOMAIN str : str[i] # "," THEN <<str>>
    ELSE LET k == CHOOSE i \in DOMAIN str :
                      str[i] = "," /\ \A j \in 1..(i - 1) : str[j] # ","
         IN  <<SubSeq(str, 1, k - 1)>> \o SplitOnComma(SubSeq(str, k + 1, Len(str)))

\* The elements of `s` that satisfy Keep, in order.
RECURSIVE SelectNonBlank(_)
SelectNonBlank(str) ==
    IF str = <<>> THEN <<>>
    ELSE IF Head(str) = " " THEN SelectNonBlank(Tail(str))
    ELSE <<Head(str)>> \o SelectNonBlank(Tail(str))

RECURSIVE SelectNonEmpty(_)
SelectNonEmpty(parts) ==
    IF parts = <<>> THEN <<>>
    ELSE IF Head(parts) = <<>> THEN SelectNonEmpty(Tail(parts))
    ELSE <<Head(parts)>> \o SelectNonEmpty(Tail(parts))

\* int(part) of a part without blanks at its ends: defined for digit strings.
IsInt(part) == part # <<>> /\ \A i \in DOMAIN part : part[i] \in Digits
RECURSIVE IntOf(_)
IntOf(part) ==
    IF part = <<>> THEN 0
    ELSE 10 * IntOf(SubSeq(part, 1, Len(part) - 1)) + DigitValue(part[Len(part)])

\* sorted(set(xs)) of a list of integers.
RECURSIVE SortedSet(_)
SortedSet(S) ==
    IF S = {} THEN <<>>
    ELSE LET m == CHOOSE x \in S : \A y \in S : x <= y
         IN  <<m>> \o SortedSet(S \ {m})

\* A faulty parse that reads a response without commas as one number.
ParseWholeNumber(split_str) ==
    LET pieces == SplitOnComma(split_str)
        parts == SelectNonEmpty([i \in DOMAIN pieces |-> SelectNonBlank(pieces[i])])
    IN  IF \A i \in DOMAIN parts : IsInt(parts[i])
        THEN [exc |-> "",
              indices |-> SortedSet({IntOf(parts[i]) : i \in DOMAIN parts})]
        ELSE [exc |-> "ValueError", indices |-> <<>>]

\* The parse of a non-empty split string, [exc, indices]: the pieces between
\* commas, stripped, or without a comma the non-blank characters one by one;
\* each through int(), then sorted(set(...)).
ParseSplitString(split_str) ==
    LET hasComma == \E i \in DOMAIN split_str : split_str[i] = ","
        pieces == SplitOnComma(split_str)
        chars == SelectNonBlank(split_str)
        parts == IF hasComma
                 THEN SelectNonEmpty([i \in DOMAIN pieces |-> Strip(pieces[i])])
                 ELSE [i \in DOMAIN chars |-> <<chars[i]>>]
    IN  IF \A i \in DOMAIN parts : IsInt(parts[i])
        THEN [exc |-> "",
              indices |-> SortedSet({IntOf(parts[i]) : i \in DOMAIN parts})]
        ELSE [exc |-> "ValueError", indices |-> <<>>]

\* The parses of the split strings of the model, computed once.
ParsedSplitStrings == [split_str \in SplitStrings \ {<<>>} |-> ParseSplitString(split_str)]

\* _get_item_split acts on a split string only through its being empty and
\* through its parse, so one string for each parse stands for all the split
\* strings that parse alike: the inputs EnterSplit draws from.
SplitStringChoices ==
    {<<>>} \cup
    { CHOOSE split_str \in DOMAIN ParsedSplitStrings :
          ParsedSplitStrings[split_str] = r :
      r \in {ParsedSplitStrings[split_str] : split_str \in DOMAIN ParsedSplitStrings} }

\* _extract_split_string_indices(split_str): [exc, indices].
_extract_split_string_indices(split_str, valid) ==
    IF split_str = <<>> THEN [exc |-> "", indices |-> valid]
    ELSE ParsedSplitStrings[split_str]

\* A faulty validation that accepts every response.
AnySplitValid(split_str, valid) == TRUE

\* _is_valid_split_str(split_str)
_is_valid_split_str(split_str, valid) ==
    IF split_str = <<>> THEN TRUE
    ELSE LET r == _extract_split_string_indices(split_str, valid)
         IN  /\ r.exc = ""
             /\ r.indices # <<>>
             /\ \A i \in DOMAIN r.indices : r.indices[i] \in Range(valid)

\* A faulty share amount: the whole subtotal charged to every sharer.
ShareUndivided(subtotal, n) == subtotal

\* share_amount = item.subtotal / len(split_indices)
ShareAmount(subtotal, n) == DecDivCount(subtotal, n)

\* A faulty copy that writes the update into the item itself and hands the
\* item back.
update_in_place(item, share_amount) ==
    [copy |-> [item EXCEPT !.subtotal = share_amount],
     item |-> [item EXCEPT !.subtotal = share_amount]]

\* item.model_copy(update={"subtotal": share_amount}): the copy carries the
\* new subtotal, and the item it was made from is as it was.
model_copy(item, share_amount) ==
    [copy |-> [item EXCEPT !.subtotal = share_amount], item |-> item]

\* A faulty loop body that never classifies an item as common: everyone
\* selected gets a copy, also when everyone is selected.
AssignSeparately(item, split_indices, valid, ci, si, ps) ==
    LET copied == model_copy(item, ShareAmount(item.subtotal, Len(split_indices)))
        sharers == {ps[split_indices[i]] : i \in DOMAIN split_indices}
    IN  <<ci, [p \in DOMAIN si |->
                  IF p \in sharers THEN Append(si[p], copied.copy) ELSE si[p]],
          copied.item>>

\* One pass of the loop body of _process_items over `item`: the common and
\* separate lists after it and the item as the receipt then holds it,
\* <<common, separate, item>>.
AssignItem(item, split_indices, valid, ci, si, ps) ==
    IF split_indices = valid
    THEN <<Append(ci, item), si, item>>
    ELSE LET copied == model_copy(item, ShareAmount(item.subtotal,
                                                    Len(split_indices)))
             sharers == {ps[split_indices[i]] : i \in DOMAIN split_indices}
         IN  <<ci, [p \in DOMAIN si |->
                       IF p \in sharers THEN Append(si[p], copied.copy)
                       ELSE si[p]],
               copied.item>>

\* The end of _process_items: the BillSplitModel is constructed from the
\* lists and calculate_shares runs on it; collect_split returns the split or
\* the exception passes through it.
FinishSplit(ci, si, ps) ==
    /\ built' = TRUE
    /\ common_items' = Some(ci)
    /\ separate_items' = Some(si)
    /\ calls' = calls + 1
    /\ \E o \in CalculateShares(Some(ci), Some(si), ps, receipt, None, None) :
        /\ _participant_shares' = o.pshares
        /\ _tax_shares' = o.tshares
        /\ calc' = IF o.exc = "" THEN "done" ELSE "raised"
        /\ pc' = IF o.exc = "" THEN "returned" ELSE "raised"
        /\ ret' = IF o.exc = "" THEN Returned("collect_split", <<>>)
                  ELSE Raised("collect_split", o.exc)

\* _process_items up to its first prompt: the empty lists, and with no item
\* to ask about, its end.
StartProcessItems(ps) ==
    LET empty == [p \in Range(ps) |-> <<>>]
    IN  IF receipt.items.isNone
        THEN /\ pc' = "raised"
             /\ ret' = Raised("collect_split", "TypeError")
             /\ common_items' = Some(<<>>)
             /\ separate_items' = Some(empty)
             /\ UNCHANGED <<built, _participant_shares, _tax_shares, calc, calls,
                            item_idx>>
        ELSE IF receipt.items.val = <<>>
        THEN /\ FinishSplit(<<>>, empty, ps)
             /\ UNCHANGED item_idx
        ELSE /\ pc' = "split"
             /\ item_idx' = 1
             /\ common_items' = Some(<<>>)
             /\ separate_items' = Some(empty)
             /\ UNCHANGED <<built, _participant_shares, _tax_shares, calc, calls,
                            ret>>

\* A faulty duplicate check that finds no name in the list.
NeverAdded(name, ps) == FALSE

\* `name in participants`, the duplicate check of every interface.
AlreadyAdded(name, ps) == name \in Range(ps)

\* _collect_participants reads a name.
EnterName ==
    /\ pc = "names"
    /\ \E name \in Names :
          IF AlreadyAdded(name, participants)
          THEN /\ output' = "Error: already added"
               /\ UNCHANGED participants
          ELSE /\ participants' = Append(participants, name)
               /\ output' = ""
    /\ UNCHANGED <<receipt, splitVars, ret, pc, valid_indices, item_idx,
                   typed, log, chat_history>>
    /\ UNCHANGED botVars

\* _collect_participants reads an empty line: with fewer than two names it
\* asks again; otherwise collect_split goes on to _process_items.
EndNames ==
    /\ pc = "names"
    /\ IF Len(participants) < 2
       THEN /\ output' = "Error: At least 2 participants are required"
            /\ UNCHANGED <<splitVars, ret, pc, valid_indices, item_idx>>
       ELSE /\ valid_indices' = [i \in 1..Len(participants) |-> i]
            /\ output' = "Bill Split Instructions"
            /\ StartProcessItems(participants)
    /\ UNCHANGED <<receipt, participants, typed, log, chat_history>>
    /\ UNCHANGED botVars

\* _get_item_split reads a split string for the current item: an invalid one
\* is asked for again, a valid one assigns the item, and after the last item
\* _process_items ends.
EnterSplit ==
    /\ pc = "split"
    /\ \E split_str \in SplitStringChoices :
          IF ~_is_valid_split_str(split_str, valid_indices)
          THEN /\ output' = "Error: Invalid split format"
               /\ UNCHANGED <<receipt, splitVars, ret, pc, item_idx>>
          ELSE LET split_indices ==
                       _extract_split_string_indices(split_str, valid_indices).indices
                   lists == AssignItem(receipt.items.val[item_idx], split_indices,
                                       valid_indices, common_items.val,
                                       separate_items.val, participants)
               IN  /\ output' = ""
                   /\ receipt' = [receipt EXCEPT !.items.val[item_idx] = lists[3]]
                   /\ IF item_idx = Len(receipt.items.val)
                      THEN /\ FinishSplit(lists[1], lists[2], participants)
                           /\ UNCHANGED item_idx
                      ELSE /\ item_idx' = item_idx + 1
                           /\ common_items' = Some(lists[1])
                           /\ separate_items' = Some(lists[2])
                           /\ UNCHANGED <<built, _participant_shares, _tax_shares,
                                          calc, calls, ret, pc>>
    /\ UNCHANGED <<participants, valid_indices, typed, log, chat_history>>
    /\ UNCHANGED botVars

ManualReceipts ==
    [items : {None} \cup {Some(l) : l \in PlainItemLists},
     taxes_and_fees : {Some(<<>>), Some(<<Dec(14, -1)>>)}]

InitManual ==
    /\ receipt \in ManualReceipts
    /\ built = FALSE
    /\ common_items = None
    /\ separate_items = None
    /\ participants = <<>>
    /\ _participant_shares = None
    /\ _tax_shares = None
    /\ calc = "never"
    /\ calls = 0
    /\ ret = Returned("", <<>>)
    /\ pc = "names"
    /\ valid_indices = <<>>
    /\ item_idx = 0
    /\ typed = <<>>
    /\ log = <<>>
    /\ output = ""
    /\ chat_history = <<>>
    /\ BotIdle

NextManual ==
    \/ EnterName
    \/ EndNames
    \/ EnterSplit

SpecManual == InitManual /\ [][NextManual]_vars

---------------------------------------------------------------------------
\* _get_item_split on its own: some participants have been collected, and
\* any response is typed at the prompt.  A valid response is parsed and
\* returned, any other is answered with the error and the prompt is shown
\* again.
GetItemSplit ==
    /\ pc = "prompt"
    /\ \E split_str \in SplitStrings :
          /\ typed' = split_str
          /\ IF _is_valid_split_str(split_str, valid_indices)
             THEN /\ ret' = Returned("_get_item_split",
                        _extract_split_string_indices(split_str, valid_indices).indices)
                  /\ output' = ""
             ELSE /\ ret' = Returned("", <<>>)
                  /\ output' = "Error: Invalid split format"
    /\ UNCHANGED <<receipt, splitVars, participants, pc, valid_indices, item_idx,
                   log, chat_history>>
    /\ UNCHANGED botVars

InitParse ==
    /\ receipt = [items |-> Some(<<[name |-> "x", subtotal |-> Dec(1, 0)]>>),
                  taxes_and_fees |-> Some(<<>>)]
    /\ built = FALSE
    /\ common_items = None
    /\ separate_items = None
    /\ participants \in {<<"a", "b">>, <<"a", "b", "c">>}
    /\ _participant_shares = None
    /\ _tax_shares = None
    /\ calc = "never"
    /\ calls = 0
    /\ ret = Returned("", <<>>)
    /\ pc = "prompt"
    /\ valid_indices = [i \in 1..Len(participants) |-> i]
    /\ item_idx = 1
    /\ typed = <<>>
    /\ log = <<>>
    /\ output = ""
    /\ chat_history = <<>>
    /\ BotIdle

NextParse == GetItemSplit

SpecParse == InitParse /\ [][NextParse]_vars

---------------------------------------------------------------------------
\* CLISplitter.display_split after collect_split has returned the split.

\* _display_validation_message: [exc, warned].  It warns when
\* abs(total_bill - receipt_data.total) > Decimal("0.01"); subtracting a
\* total of None from the Decimal sum raises TypeError.
DisplayValidationMessage(total_bill, total) ==
    IF total.isNone THEN [exc |-> "TypeError", warned |-> FALSE]
    ELSE [exc |-> "", warned |-> DecLess(Cent, DecAbs(DecSub(total_bill, total.val)))]

\* display_split(split_data): the tables and the final totals are printed
\* from the calculated shares, then the validation message.
display_split ==
    /\ pc = "returned"
    /\ LET shares == TotalShares(participants, _participant_shares, _tax_shares)
           total_bill == SumValues(shares, Keys(participants))
           v == DisplayValidationMessage(total_bill, receipt.total)
       IN  /\ output' = IF v.warned
                        THEN "WARNING: Total bill amount differs from receipt total"
                        ELSE "FINAL TOTALS:"
           /\ ret' = IF v.exc = "" THEN Returned("display_split", total_bill)
                     ELSE Raised("display_split", v.exc)
    /\ pc' = "displayed"
    /\ UNCHANGED <<receipt, splitVars, participants, valid_indices, item_idx,
                   typed, log, chat_history>>
    /\ UNCHANGED botVars

\* The receipts an adapter hands over: ReceiptModel.total is Optional and
\* the adapters fill it in only when the source states one.
DisplayReceipts ==
    [items : {Some(<<[name |-> "x", subtotal |-> Dec(1, 0)]>>),
              Some(<<[name |-> "x", subtotal |-> Dec(1, 0)],
                     [name |-> "y", subtotal |-> Dec(1, 0)]>>)},
     taxes_and_fees : {Some(<<>>), Some(<<Dec(14, -1)>>)},
     total : {None} \cup {Some(t) : t \in {Dec(1, 0), Dec(101, -2), Dec(102, -2),
                                           Dec(24, -1), Dec(241, -2), Dec(242, -2)}}]

InitDisplay ==
    /\ receipt \in DisplayReceipts
    /\ built = FALSE
    /\ common_items = None
    /\ separate_items = None
    /\ participants = <<>>
    /\ _participant_shares = None
    /\ _tax_shares = None
    /\ calc = "never"
    /\ calls = 0
    /\ ret = Returned("", <<>>)
    /\ pc = "names"
    /\ valid_indices = <<>>
    /\ item_idx = 0
    /\ typed = <<>>
    /\ log = <<>>
    /\ output = ""
    /\ chat_history = <<>>
    /\ BotIdle

NextDisplay ==
    \/ EnterName
    \/ EndNames
    \/ EnterSplit
    \/ display_split

SpecDisplay == InitDisplay /\ [][NextDisplay]_vars

---------------------------------------------------------------------------
\* SmartCLISplitter: the clarification loop.  The chat model is an oracle:
\* each invocation raises or returns some LLMSplitResponse.
Instructions == {"split everything equally", "the rest is mine"}

\* The first item of `items` with another subtotal.
Mispriced(items) ==
    IF items = <<>> THEN items
    ELSE [items EXCEPT ![1].subtotal =
             IF items[1].subtotal = Dec(2, 0) THEN Dec(1, 0) ELSE Dec(2, 0)]

\* `items` without the first of them.
WithoutFirst(items) == IF items = <<>> THEN items ELSE Tail(items)

\* The BillSplitModels the oracle may put into a response: the faithful ones
\* (everything common, everything charged to the first participant) and
\* unfaithful ones (an item left out, an item mispriced, nothing at all), for
\* the collected participants or without the first of them.
OracleSplits(rc, ps) ==
    LET items == rc.items.val
        fields == {<<Some(items), None>>,
                   <<None, Some([p \in {ps[1]} |-> items])>>,
                   <<Some(WithoutFirst(items)), None>>,
                   <<Some(Mispriced(items)), None>>,
                   <<None, None>>}
    IN  {[common_items |-> f[1], separate_items |-> f[2], participants |-> q] :
            f \in fields, q \in {ps, Tail(ps)}}

\* The LLMSplitResponses the oracle may return.
OracleResponses(rc, ps) ==
    {[split_result |-> sr, needs_clarification |-> FALSE,
      clarification_question |-> None] : sr \in OracleSplits(rc, ps)}
    \cup
    {[split_result |-> sr, needs_clarification |-> TRUE,
      clarification_question |-> Some("How should the rest be split?")] :
          sr \in OracleSplits(rc, ps)}

\* print(f"{question}") of an optional string.
Printed(question) == IF question.isNone THEN "None" ELSE question.val

\* A faulty is_complete that takes every response for a finished split.
is_complete_always(response) == TRUE

\* A faulty is_complete that takes no response for a finished split.
is_complete_never(response) == FALSE

\* LLMSplitResponse.is_complete
is_complete(response) == ~response.needs_clarification

\* _collect_participants of SmartCLISplitter reads a name.
SmartEnterName ==
    /\ pc = "smart_names"
    /\ \E name \in Names :
          IF AlreadyAdded(name, participants)
          THEN /\ output' = "Error: already added"
               /\ UNCHANGED participants
          ELSE /\ participants' = Append(participants, name)
               /\ output' = ""
    /\ UNCHANGED <<receipt, splitVars, ret, pc, valid_indices, item_idx,
                   typed, log, chat_history>>
    /\ UNCHANGED botVars

\* _initialize_chat_history
InitialChatHistory(rc, ps) ==
    << [role |-> "system", content |-> "SYSTEM_PROMPT"],
       [role |-> "human", content |-> [receipt |-> rc, participants |-> ps]] >>

\* _collect_participants reads an empty line: with fewer than two names it
\* asks again; otherwise collect_split seeds the chat history and prompts for
\* the instructions.
SmartEndNames ==
    /\ pc = "smart_names"
    /\ IF Len(participants) < 2
       THEN /\ output' = "Error: At least 2 participants are required"
            /\ UNCHANGED <<pc, chat_history>>
       ELSE /\ chat_history' = InitialChatHistory(receipt, participants)
            /\ output' = "SPLIT_INSTRUCTIONS"
            /\ pc' = "instructions"
    /\ UNCHANGED <<receipt, splitVars, ret, participants, valid_indices, item_idx,
                   typed, log>>
    /\ UNCHANGED botVars

\* A faulty acceptance that sets the complete response aside and lets the
\* loop ask again.
SetSplitAside(sr) == UNCHANGED <<splitVars, participants, ret, pc>>

\* The complete response is accepted as it is: calculate_shares runs on its
\* split_result, and collect_split returns it or passes the exception on.
AcceptSplit(sr) ==
    /\ built' = TRUE
    /\ common_items' = sr.common_items
    /\ separate_items' = sr.separate_items
    /\ participants' = sr.participants
    /\ calls' = calls + 1
    /\ \E o \in CalculateShares(sr.common_items, sr.separate_items,
                                sr.participants, receipt, None, None) :
        /\ _participant_shares' = o.pshares
        /\ _tax_shares' = o.tshares
        /\ calc' = IF o.exc = "" THEN "done" ELSE "raised"
        /\ pc' = IF o.exc = "" THEN "returned" ELSE "raised"
        /\ ret' = IF o.exc = "" THEN Returned("collect_split", <<>>)
                  ELSE Raised("collect_split", o.exc)

\* collect_split reads the instructions and _process_instructions invokes the
\* chat model on the history: the invocation raises, or its response is
\* appended; a complete response ends collect_split, any other prints its
\* clarification question and the loop asks again.
SmartInstruction ==
    /\ pc = "instructions"
    /\ Len(chat_history) < 2 + 2 * MaxRounds
    /\ \E instructions \in Instructions :
        LET asked == Append(chat_history,
                            [role |-> "human", content |-> instructions])
        IN  \/ /\ chat_history' = asked
               /\ pc' = "raised"
               /\ ret' = Raised("collect_split", "Exception")
               /\ UNCHANGED <<splitVars, participants, output>>
            \/ \E response \in OracleResponses(receipt, participants) :
                 /\ chat_history' =
                        Append(asked, [role |-> "assistant", content |-> response])
                 /\ IF is_complete(response)
                    THEN /\ AcceptSplit(response.split_result)
                         /\ UNCHANGED output
                    ELSE /\ output' = Printed(response.clarification_question)
                         /\ UNCHANGED <<splitVars, participants, ret, pc>>
    /\ UNCHANGED <<receipt, valid_indices, item_idx, typed, log>>
    /\ UNCHANGED botVars

SmartReceipts ==
    [items : {Some(l) : l \in PlainItemLists},
     taxes_and_fees : {Some(<<Dec(14, -1)>>)}]

InitSmart ==
    /\ receipt \in SmartReceipts
    /\ built = FALSE
    /\ common_items = None
    /\ separate_items = None
    /\ participants = <<>>
    /\ _participant_shares = None
    /\ _tax_shares = None
    /\ calc = "never"
    /\ calls = 0
    /\ ret = Returned("", <<>>)
    /\ pc = "smart_names"
    /\ valid_indices = <<>>
    /\ item_idx = 0
    /\ typed = <<>>
    /\ log = <<>>
    /\ output = ""
    /\ chat_history = <<>>
    /\ BotIdle

NextSmart ==
    \/ SmartEnterName
    \/ SmartEndNames
    \/ SmartInstruction

SpecSmart == InitSmart /\ [][NextSmart]_vars

\* The loop of collect_split blocks on input() and does nothing else: with a
\* user who keeps typing, an instruction turn that can be taken is taken.
SpecSmartLive == SpecSmart /\ WF_vars(SmartInstruction)

---------------------------------------------------------------------------
\* TelegramSplitter (interface/telegram_bot.py): one bot with one LLM provider
\* and its history, and one conversation per user.  The application handles
\* the updates one at a time, so a handler runs to its end before the next
\* update is handled.  A handler's return value is the conversation's next
\* state; a handler that raises leaves the conversation where it was.

\* The longest llm.history the model lets an instruction turn build.
MaxHistory == 6

\* BaseLLMProvider's default number of attempts.
max_retries == 3

BotNames == {"a", "b"}
BotInstructions == {"split everything equally"}
BotItems == <<[name |-> "x", subtotal |-> Dec(1, 0)]>>

\* What AnthropicParser.extract_bill returns: every field of a ReceiptModel is
\* optional, the taxes among them.
BotReceipts ==
    {[items |-> Some(BotItems), taxes_and_fees |-> Some(<<Dec(14, -1)>>)]}

\* An update of user u handled by op, which raised exc or sent reply.
Handled(u, op, exc, reply) ==
    [user |-> u, op |-> op, exc |-> exc, attempts |-> <<>>,
     reply |-> reply, shown |-> None]

\* The structured responses of the provider: everything common, a split
\* without participants, a split that charges nothing at all, or a partial
\* split with a question.
BotSplits(rc, ps) ==
    {[common_items |-> rc.items, separate_items |-> None, participants |-> ps],
     [common_items |-> rc.items, separate_items |-> None, participants |-> <<>>],
     [common_items |-> None, separate_items |-> None, participants |-> ps]}

BotResponses(rc, ps) ==
    {[split_result |-> sr, needs_clarification |-> FALSE,
      clarification_question |-> None] : sr \in BotSplits(rc, ps)}
    \cup {[split_result |-> [common_items |-> None, separate_items |-> None,
                             participants |-> ps],
           needs_clarification |-> TRUE,
           clarification_question |-> Some("How should the rest be split?")]}

\* /start, the entry point of a user without a conversation.
start_command(u) ==
    /\ conversation[u] \in {"NONE", "END"}
    /\ user_data' = [user_data EXCEPT ![u].participants = Some(<<>>)]
    /\ conversation' = [conversation EXCEPT ![u] = "COLLECTING_PARTICIPANTS"]
    /\ handled' = Handled(u, "start_command", "", "Let's split a bill!")
    /\ UNCHANGED <<history, sender>>

\* user_data.get('participants', [])
GetParticipants(u) ==
    IF user_data[u].participants.isNone THEN <<>>
    ELSE user_data[u].participants.val

\* The names a user may type next: the bot compares names and nothing else,
\* so the model lets the user type a name already added or the first name
\* not added yet.
NameChoices(ps) ==
    Range(ps) \cup (IF BotNames \subseteq Range(ps) THEN {}
                    ELSE {CHOOSE n \in BotNames \ Range(ps) : TRUE})

\* A text message while the participants are collected.
handle_participant(u) ==
    /\ conversation[u] = "COLLECTING_PARTICIPANTS"
    /\ \E name \in NameChoices(GetParticipants(u)) :
          IF AlreadyAdded(name, GetParticipants(u))
          THEN /\ handled' = Handled(u, "handle_participant", "",
                                     "Error: already added")
               /\ UNCHANGED user_data
          ELSE /\ user_data' = [user_data EXCEPT
                     ![u].participants = Some(Append(GetParticipants(u), name))]
               /\ handled' = Handled(u, "handle_participant", "", "Added")
    /\ UNCHANGED <<conversation, history, sender>>

\* /done while the participants are collected.
finish_participants(u) ==
    /\ conversation[u] = "COLLECTING_PARTICIPANTS"
    /\ IF Len(GetParticipants(u)) < 2
       THEN /\ handled' = Handled(u, "finish_participants", "",
                                  "Error: At least 2 participants are required")
            /\ UNCHANGED conversation
       ELSE /\ handled' = Handled(u, "finish_participants", "",
                                  "Great! Now please send a photo of the receipt.")
            /\ conversation' = [conversation EXCEPT ![u] = "WAITING_FOR_RECEIPT"]
    /\ UNCHANGED <<user_data, history, sender>>

\* A photo while the bot waits for the receipt.  The handler looks the
\* suffix up in AnthropicParser.MIME_TYPES, an attribute parser/llm.py does
\* not define: unless the parser's base class provides it, the lookup
\* raises AttributeError for every photo.  Where it is provided, the format
\* is not supported, or the parser fails, or the receipt it extracts is
\* stored.
handle_receipt_photo(u) ==
    /\ conversation[u] = "WAITING_FOR_RECEIPT"
    /\ \/ /\ handled' = Handled(u, "handle_receipt_photo", "AttributeError", "")
          /\ UNCHANGED <<conversation, user_data>>
       \/ /\ handled' = Handled(u, "handle_receipt_photo", "",
                                "Unsupported image format")
          /\ UNCHANGED <<conversation, user_data>>
       \/ /\ handled' = Handled(u, "handle_receipt_photo", "",
                                "Error processing receipt")
          /\ UNCHANGED <<conversation, user_data>>
       \/ \E receipt_data \in BotReceipts :
             /\ user_data' = [user_data EXCEPT ![u].receipt_data = Some(receipt_data)]
             /\ handled' = Handled(u, "handle_receipt_photo", "",
                                   "Please describe how you want to split the bill.")
             /\ conversation' = [conversation EXCEPT ![u] = "COLLECTING_INSTRUCTIONS"]
    /\ UNCHANGED <<history, sender>>

\* The history collect_split leaves for the provider: a fresh one for a user
\* whose user_data holds no chat_initialized, the bot's history otherwise.
SeededHistory(u) ==
    IF ~user_data[u].chat_initialized
    THEN InitialChatHistory(user_data[u].receipt_data.val,
                            user_data[u].participants.val)
    ELSE history
SeededSender(u) ==
    IF ~user_data[u].chat_initialized THEN <<u, u>> ELSE sender

\* display_split: the common items table divides by the number of
\* participants before anything is sent.
DisplaySplit(sr, pshares, tshares) ==
    IF Truthy(sr.common_items) /\ Len(sr.participants) = 0
    THEN [exc |-> DivZeroExc(sr.common_items.val[1].subtotal), shown |-> None]
    ELSE [exc |-> "",
          shown |-> Some([common_items |-> sr.common_items,
                          separate_items |-> sr.separate_items,
                          participants |-> sr.participants,
                          participant_shares |-> pshares,
                          tax_shares |-> tshares,
                          total_shares |-> TotalShares(sr.participants,
                                                       pshares, tshares)])]

\* A faulty retry that gives up after the first call.
RetryOnce(works, n) == <<IF works[1] THEN "answered" ELSE "failed">>

\* retry(stop=stop_after_attempt(n)) around _raw_invoke, where works[k]
\* tells whether the k-th call would succeed: the function is called again
\* until a call succeeds or n calls have failed.  The calls made, in order.
Retry(works, n) ==
    LET good == {k \in 1..n : works[k]}
        count == IF good = {} THEN n
                 ELSE CHOOSE k \in good : \A j \in good : k <= j
    IN  [k \in 1..count |-> IF works[k] THEN "answered" ELSE "failed"]

\* BaseLLMProvider.invoke with keep_history: the message is appended to the
\* history and _raw_invoke is retried; when the last call made has failed,
\* ValueError is raised, otherwise the response is appended and returned.
Invoke(hist, message, responses) ==
    LET asked == Append(hist, [role |-> "human", content |-> message])
    IN  UNION {
          LET made == Retry(works, max_retries)
          IN  IF made[Len(made)] = "failed"
              THEN {[exc |-> "ValueError", attempts |-> made, history |-> asked,
                     response |-> None]}
              ELSE {[exc |-> "", attempts |-> made,
                     history |-> Append(asked, [role |-> "assistant",
                                                content |-> r]),
                     response |-> Some(r)] : r \in responses}
          : works \in [1..max_retries -> BOOLEAN] }

\* A text message while the instructions are collected: collect_split seeds
\* the history when the user's chat is not initialized and invokes the
\* provider.  A complete response is calculated and displayed and ends the
\* conversation; any other sends its question, and Telegram refuses a
\* message without text.
collect_split(u) ==
    /\ conversation[u] = "COLLECTING_INSTRUCTIONS"
    /\ Len(SeededHistory(u)) + 2 <= MaxHistory
    /\ user_data' = [user_data EXCEPT ![u].chat_initialized = TRUE]
    /\ \E instructions \in BotInstructions :
        LET receipt_data == user_data[u].receipt_data.val
        IN  \E i \in Invoke(SeededHistory(u), instructions,
                            BotResponses(receipt_data, user_data[u].participants.val)) :
            /\ history' = i.history
            /\ sender' = SeededSender(u) \o
                            [k \in 1..(Len(i.history) - Len(SeededHistory(u))) |-> u]
            /\ IF i.exc # ""
               THEN /\ handled' = [Handled(u, "collect_split", i.exc, "")
                                   EXCEPT !.attempts = i.attempts]
                    /\ UNCHANGED conversation
               ELSE IF is_complete(i.response.val)
               THEN LET sr == i.response.val.split_result
                    IN  \E o \in CalculateShares(sr.common_items, sr.separate_items,
                                                sr.participants, receipt_data,
                                                None, None) :
                          LET d == DisplaySplit(sr, o.pshares, o.tshares)
                              exc == IF o.exc # "" THEN o.exc ELSE d.exc
                          IN  IF exc # ""
                              THEN /\ handled' = [Handled(u, "collect_split", exc, "")
                                                  EXCEPT !.attempts = i.attempts]
                                   /\ UNCHANGED conversation
                              ELSE /\ handled' = [Handled(u, "collect_split", "",
                                                          "FINAL TOTALS:")
                                                  EXCEPT !.attempts = i.attempts,
                                                         !.shown = d.shown]
                                   /\ conversation' =
                                         [conversation EXCEPT ![u] = "END"]
               ELSE LET question == i.response.val.clarification_question
                    IN  /\ handled' =
                              [(IF question.isNone
                                THEN Handled(u, "collect_split", "BadRequest", "")
                                ELSE Handled(u, "collect_split", "", question.val))
                               EXCEPT !.attempts = i.attempts]
                        /\ UNCHANGED conversation

\* A faulty cancel that replies and leaves the conversation where it is.
cancel_ignored(u) ==
    /\ conversation[u] \in {"COLLECTING_PARTICIPANTS", "WAITING_FOR_RECEIPT",
                            "COLLECTING_INSTRUCTIONS"}
    /\ handled' = Handled(u, "cancel", "", "Bill splitting cancelled.")
    /\ UNCHANGED <<conversation, user_data, history, sender>>

\* /cancel, the fallback of every state of a conversation.
cancel(u) ==
    /\ conversation[u] \in {"COLLECTING_PARTICIPANTS", "WAITING_FOR_RECEIPT",
                            "COLLECTING_INSTRUCTIONS"}
    /\ conversation' = [conversation EXCEPT ![u] = "END"]
    /\ handled' = Handled(u, "cancel", "", "Bill splitting cancelled.")
    /\ UNCHANGED <<user_data, history, sender>>

singleVars == <<receipt, splitVars, participants, ret, ifaceVars>>

InitBot ==
    /\ receipt = [items |-> None, taxes_and_fees |-> None]
    /\ built = FALSE
    /\ common_items = None
    /\ separate_items = None
    /\ participants = <<>>
    /\ _participant_shares = None
    /\ _tax_shares = None
    /\ calc = "never"
    /\ calls = 0
    /\ ret = Returned("", <<>>)
    /\ pc = "bot"
    /\ valid_indices = <<>>
    /\ item_idx = 0
    /\ typed = <<>>
    /\ log = <<>>
    /\ output = ""
    /\ chat_history = <<>>
    /\ BotIdle

NextBot ==
    \E u \in Users :
        /\ \/ start_command(u)
           \/ handle_participant(u)
           \/ finish_participants(u)
           \/ handle_receipt_photo(u)
           \/ collect_split(u)
           \/ cancel(u)
        /\ UNCHANGED singleVars

SpecBot == InitBot /\ [][NextBot]_vars

---------------------------------------------------------------------------
\* The receipt data models and their validators: ItemModel and TaxModel of
\* splitmybill (data_model/receipt) and of the older billsplitter package.
\* A construction returns the model or raises, and logs warnings on its way.

\* The fields the constructions are tried with.
ItemFields ==
    [name : {"x"},
     quantity : {None, Some(-1), Some(0), Some(2)},
     unit_price : {None, Some(Dec(-1, 0)), Some(Zero), Some(Dec(1, 0))},
     subtotal : {Dec(-1, 0), Zero, Dec(2, 0), Dec(201, -2)}]
TaxFields ==
    [name : {"t"},
     rate : {None, Some(-1), Some(0), Some(100), Some(101)},
     total : {Dec(-5, -1), Zero, Dec(14, -1)}]

Warning(name, about) == [name |-> name, about |-> about]
WarnIf(cond, name, about) == IF cond THEN <<Warning(name, about)>> ELSE <<>>

\* ItemModel.validate_item_fields of splitmybill.
validate_item_fields(item) ==
    [exc |-> "",
     warnings |-> WarnIf(~item.quantity.isNone /\ item.quantity.val <= 0,
                         item.name, "invalid quantity")]

\* ItemModel.validate_item_fields of billsplitter: the subtotal is compared
\* with quantity * unit_price when both are set and neither is zero.
legacy_validate_item_fields(item) ==
    LET mismatch ==
            /\ ~item.quantity.isNone /\ item.quantity.val # 0
            /\ ~item.unit_price.isNone /\ item.unit_price.val # Zero
            /\ DecLess(Cent, DecAbs(DecSub(DecMul(Dec(item.quantity.val, 0),
                                                  item.unit_price.val),
                                           item.subtotal)))
    IN  [exc |-> "",
         warnings |->
            WarnIf(~item.quantity.isNone /\ item.quantity.val <= 0,
                   item.name, "invalid quantity")
            \o WarnIf(~item.unit_price.isNone /\ DecLeq(item.unit_price.val, Zero),
                      item.name, "invalid unit price")
            \o WarnIf(DecLeq(item.subtotal, Zero), item.name, "invalid subtotal")
            \o WarnIf(mismatch, item.name, "subtotal doesn't match")]

\* TaxModel.validate_tax_fields of splitmybill.
validate_tax_fields(tax) ==
    [exc |-> "",
     warnings |->
        WarnIf(~tax.rate.isNone /\ ~(0 <= tax.rate.val /\ tax.rate.val <= 100),
               tax.name, "invalid rate")
        \o WarnIf(DecLess(tax.total, Zero), tax.name, "negative amount")]

\* TaxModel.validate_tax_fields of billsplitter: the message for a negative
\* total reads self.amount, an attribute the model does not have.
legacy_validate_tax_fields(tax) ==
    [exc |-> IF DecLess(tax.total, Zero) THEN "AttributeError" ELSE "",
     warnings |->
        WarnIf(~tax.rate.isNone /\ ~(0 <= tax.rate.val /\ tax.rate.val <= 100),
               tax.name, "invalid rate")]

\* Model(**fields): the fields are taken as given and the validator runs.
NewModel(op, fields, validated) ==
    /\ pc = "models"
    /\ log' = validated.warnings
    /\ ret' = [op |-> op, exc |-> validated.exc,
               val |-> [args |-> fields,
                        model |-> IF validated.exc = "" THEN Some(fields) ELSE None]]
    /\ UNCHANGED <<receipt, splitVars, participants, pc, valid_indices, item_idx,
                   typed, output, chat_history>>
    /\ UNCHANGED botVars

NewItemModel ==
    \E fields \in ItemFields :
        NewModel("ItemModel", fields, validate_item_fields(fields))
NewLegacyItemModel ==
    \E fields \in ItemFields :
        NewModel("billsplitter.ItemModel", fields, legacy_validate_item_fields(fields))
NewTaxModel ==
    \E fields \in TaxFields :
        NewModel("TaxModel", fields, validate_tax_fields(fields))
NewLegacyTaxModel ==
    \E fields \in TaxFields :
        NewModel("billsplitter.TaxModel", fields, legacy_validate_tax_fields(fields))

InitModels ==
    /\ receipt = [items |-> None, taxes_and_fees |-> None]
    /\ built = FALSE
    /\ common_items = None
    /\ separate_items = None
    /\ participants = <<>>
    /\ _participant_shares = None
    /\ _tax_shares = None
    /\ calc = "never"
    /\ calls = 0
    /\ ret = Returned("", <<>>)
    /\ pc = "models"
    /\ valid_indices = <<>>
    /\ item_idx = 0
    /\ typed = <<>>
    /\ log = <<>>
    /\ output = ""
    /\ chat_history = <<>>
    /\ BotIdle

NextModels ==
    \/ NewItemModel
    \/ NewLegacyItemModel
    \/ NewTaxModel
    \/ NewLegacyTaxModel

SpecModels == InitModels /\ [][NextModels]_vars

---------------------------------------------------------------------------
\* billsplitter.splitter.cli.CLISplitter, the first command-line splitter.
\* It is constructed with the receipt and the participants, and split_bill
\* asks for one split string for each item.  Its two mappings are dicts
\* keyed by the item's name; they are kept where the splitter above keeps
\* its lists: common_split in common_items, separate_split in
\* separate_items, and the pretax_totals of _display_totals in
\* _participant_shares.

\* _extract_split_string_indices(split_str) of a non-empty split string,
\* [exc, indices]: the pieces between commas, or without a comma the
\* characters one by one, each through int(), in the order typed.
legacy_extract_split_string_indices(split_str) ==
    LET hasComma == \E i \in DOMAIN split_str : split_str[i] = ","
        pieces == SplitOnComma(split_str)
        parts == IF hasComma
                 THEN [i \in DOMAIN pieces |-> Strip(pieces[i])]
                 ELSE [i \in DOMAIN split_str |-> <<split_str[i]>>]
    IN  IF \A i \in DOMAIN parts : IsInt(parts[i])
        THEN [exc |-> "", indices |-> [i \in DOMAIN parts |-> IntOf(parts[i])]]
        ELSE [exc |-> "ValueError", indices |-> <<>>]

\* _is_valid_split_str(split_str)
legacy_is_valid_split_str(split_str, valid) ==
    IF split_str = <<>> THEN TRUE
    ELSE LET r == legacy_extract_split_string_indices(split_str)
         IN  /\ r.exc = ""
             /\ \A i \in DOMAIN r.indices : r.indices[i] \in Range(valid)

\* _get_item_split acts on a split string only through its being empty and
\* through its parse: one string for each parse stands for all the split
\* strings that parse alike.
LegacySplitStringChoices ==
    LET parsed == [split_str \in SplitStrings \ {<<>>} |->
                      legacy_extract_split_string_indices(split_str)]
    IN  {<<>>} \cup
        { CHOOSE split_str \in DOMAIN parsed : parsed[split_str] = r :
          r \in {parsed[split_str] : split_str \in DOMAIN parsed} }

\* d after d[key] = value
SetKey(d, key, value) ==
    [k \in DOMAIN d \cup {key} |-> IF k = key THEN value ELSE d[k]]

\* One turn of the loop of _process_items on `item`:
\* <<common_split, separate_split>> after it.
legacy_process_item(item, split_indices, valid, common_split, separate_split, people) ==
    IF split_indices = valid
    THEN <<SetKey(common_split, item.name, item.subtotal), separate_split>>
    ELSE LET split_share == DecDivCount(item.subtotal, Len(split_indices))
             chosen == {people[split_indices[i]] : i \in DOMAIN split_indices}
         IN  <<common_split,
               [p \in DOMAIN separate_split |->
                   IF p \in chosen
                   THEN SetKey(separate_split[p], item.name, split_share)
                   ELSE separate_split[p]]>>

\* sum(d.values()) of a dict keyed by some of the item names `names`.
SumDict(d, names) ==
    SumValues(d, SelectSeq(Keys(names), LAMBDA n : n \in DOMAIN d))

\* _display_totals up to its check of total_pretax: [exc, pretax_totals].
\* sum() of an empty dict is the int 0 and 0 / len(participants) is a
\* float, which no Decimal can be added to.
legacy_pretax_totals(common_split, separate_split, people, names) ==
    LET common_per_person ==
            DecDivCount(SumDict(common_split, names), Len(people))
        isFloat == DOMAIN common_split = {}
        pretax_totals ==
            [p \in Range(people) |->
                DecAdd(SumDict(separate_split[p], names), common_per_person)]
        total_pretax == SumValues(pretax_totals, people)
    IN  IF isFloat /\ \E p \in Range(people) : DOMAIN separate_split[p] # {}
        THEN [exc |-> "TypeError", pretax_totals |-> <<>>]
        ELSE IF DecLeq(total_pretax, Zero)
        THEN [exc |-> "ValueError", pretax_totals |-> pretax_totals]
        ELSE [exc |-> "", pretax_totals |-> pretax_totals]

\* _display_totals(common_split, separate_split), and the end of split_bill.
\* What follows the check prints the tables and changes no total.
legacy_display_totals(common_split, separate_split) ==
    LET items == receipt.items.val
        r == legacy_pretax_totals(common_split, separate_split, participants,
                                  [i \in DOMAIN items |-> items[i].name])
    IN  /\ common_items' = Some(common_split)
        /\ separate_items' = Some(separate_split)
        /\ _participant_shares' = IF r.exc = "TypeError" THEN None
                                  ELSE Some(r.pretax_totals)
        /\ ret' = IF r.exc = "" THEN Returned("split_bill", r.pretax_totals)
                  ELSE Raised("split_bill", r.exc)
        /\ pc' = "displayed"

\* split_bill() up to its first prompt.
split_bill ==
    /\ pc = "start"
    /\ LET common_split == <<>>
           separate_split == [p \in Range(participants) |-> <<>>]
       IN  IF receipt.items.val = <<>>
           THEN /\ legacy_display_totals(common_split, separate_split)
                /\ UNCHANGED item_idx
           ELSE /\ common_items' = Some(common_split)
                /\ separate_items' = Some(separate_split)
                /\ item_idx' = 1
                /\ pc' = "split"
                /\ UNCHANGED <<_participant_shares, ret>>
    /\ output' = "It can be any combination of the following values: "
    /\ UNCHANGED <<receipt, built, participants, _tax_shares, calc, calls,
                   valid_indices, typed, log, chat_history>>
    /\ UNCHANGED botVars

\* One response at the prompt of _get_item_split, and split_bill up to its
\* next prompt or its end.
legacy_get_item_split ==
    /\ pc = "split"
    /\ \E split_str \in LegacySplitStringChoices :
          IF ~legacy_is_valid_split_str(split_str, valid_indices)
          THEN /\ output' = "Invalid split string. Please enter a valid split string."
               /\ UNCHANGED <<common_items, separate_items, _participant_shares,
                              ret, pc, item_idx>>
          ELSE LET split_indices ==
                       IF split_str = <<>> THEN valid_indices
                       ELSE legacy_extract_split_string_indices(split_str).indices
                   splits == legacy_process_item(receipt.items.val[item_idx],
                                 split_indices, valid_indices, common_items.val,
                                 separate_items.val, participants)
               IN  /\ output' = ""
                   /\ IF item_idx = Len(receipt.items.val)
                      THEN /\ legacy_display_totals(splits[1], splits[2])
                           /\ UNCHANGED item_idx
                      ELSE /\ item_idx' = item_idx + 1
                           /\ common_items' = Some(splits[1])
                           /\ separate_items' = Some(splits[2])
                           /\ UNCHANGED <<_participant_shares, ret, pc>>
    /\ UNCHANGED <<receipt, built, participants, _tax_shares, calc, calls,
                   valid_indices, typed, log, chat_history>>
    /\ UNCHANGED botVars

\* The splitter after CLISplitter(receipt, participants): the constructor
\* refuses an empty list of participants.
InitLegacy ==
    /\ receipt \in [items : {Some(l) : l \in SeqsUpTo(Items, MaxItems)},
                    taxes_and_fees : {Some(<<>>), Some(<<Dec(14, -1)>>)}]
    /\ built = FALSE
    /\ common_items = None
    /\ separate_items = None
    /\ participants \in {<<"a">>, <<"a", "b">>, <<"a", "b", "c">>}
    /\ _participant_shares = None
    /\ _tax_shares = None
    /\ calc = "never"
    /\ calls = 0
    /\ ret = Returned("", <<>>)
    /\ pc = "start"
    /\ valid_indices = [i \in 1..Len(participants) |-> i]
    /\ item_idx = 0
    /\ typed = <<>>
    /\ log = <<>>
    /\ output = ""
    /\ chat_history = <<>>
    /\ BotIdle

NextLegacy ==
    \/ split_bill
    \/ legacy_get_item_split

SpecLegacy == InitLegacy /\ [][NextLegacy]_vars

---------------------------------------------------------------------------
\* Properties of the share calculation.

MinInt(S) == CHOOSE x \in S : \A y \in S : x <= y

\* |x - y| <= 0.01, compared exactly.
WithinCent(x, y) ==
    \/ x = y
    \/ LET e == MinInt({x.e, y.e, -2})
           fits(a) == a.c = 0 \/ NumDigits(AbsInt(a.c)) + a.e - e <= 9
           scaled(a) == a.c * Pow10(a.e - e)
       IN  /\ fits(x) /\ fits(y)
           /\ AbsInt(scaled(x) - scaled(y)) <= Pow10(-2 - e)

\* a * b = c * d, the products taken exactly.
ExactProductsEqual(a, b, c, d) == Dec(a.c * b.c, a.e + b.e) = Dec(c.c * d.c, c.e + d.e)

\* |a * b - c * d| <= 0.002 * |c * d|, the products taken exactly.
ProductsClose(a, b, c, d) ==
    LET L == Dec(a.c * b.c, a.e + b.e)
        R == Dec(c.c * d.c, c.e + d.e)
        e == MinInt({L.e, R.e})
        fits(x) == NumDigits(AbsInt(x.c)) + x.e - e <= 9
        scaled(x) == x.c * Pow10(x.e - e)
    IN  \/ L = R
        \/ /\ L.c # 0 /\ R.c # 0
           /\ fits(L) /\ fits(R)
           /\ AbsInt(scaled(L) - scaled(R)) <= AbsInt(scaled(R)) \div 500

\* The totals calculate_shares works with, read back from the state.
total_pretax == SumValues(_participant_shares.val, Keys(participants))
total_tax == SumSeq(receipt.taxes_and_fees.val)

Distinct(s) == \A i, j \in DOMAIN s : s[i] = s[j] => i = j

\* C2 as stated: after calculate_shares has succeeded, for every participant
\* tax_shares[p] * total_pretax equals participant_shares[p] * total_tax exactly.
TaxProportionalExactly ==
    calc = "done" =>
        \A p \in Range(participants) :
            ExactProductsEqual(_tax_shares.val[p], total_pretax,
                               _participant_shares.val[p], total_tax)

\* C2 amended: after calculate_shares has succeeded, for every participant
\* tax_shares[p] * total_pretax equals participant_shares[p] * total_tax up to
\* the rounding of the quotient and the product, a relative error below 0.2%.
TaxProportionalWithinRounding ==
    calc = "done" =>
        \A p \in Range(participants) :
            ProductsClose(_tax_shares.val[p], total_pretax,
                          _participant_shares.val[p], total_tax)

\* A successful calculation with a tax to share whose allocation is rounded.
TaxProportionalWitness ==
    /\ calc = "done"
    /\ total_tax.c # 0
    /\ \E p \in Range(participants) :
          /\ _tax_shares.val[p].c # 0
          /\ ~ExactProductsEqual(_tax_shares.val[p], total_pretax,
                                 _participant_shares.val[p], total_tax)

\* C3: after calculate_shares has succeeded, total_shares[p] is
\* participant_shares[p] + tax_shares[p] for every participant, and the sum of
\* the total shares is the sum of the pre-tax shares plus the sum of the
\* receipt's tax totals within 0.01.
TotalConservation ==
    calc = "done" =>
        /\ \A p \in Range(participants) :
              total_shares.val[p] =
                  DecAdd(_participant_shares.val[p], _tax_shares.val[p])
        /\ WithinCent(SumValues(total_shares.val, Keys(participants)),
                      DecAdd(total_pretax, total_tax))

\* C4: as long as no calculate_shares has completed, tax_shares and
\* total_shares raise ValueError, also after participant_shares has been read;
\* and only a completing calculate_shares changes the tax share cache.
StateGuard ==
    /\ [](calc # "done" =>
            /\ tax_shares.exc = "ValueError"
            /\ total_shares.exc = "ValueError")
    /\ [][_tax_shares' # _tax_shares =>
            ret'.op = "calculate_shares" /\ calc' = "done"]_vars

\* participant_shares has been read and computed, calculate_shares never ran.
StateGuardWitness ==
    /\ calls = 0
    /\ ret.op = "participant_shares" /\ ret.exc = ""
    /\ ~_participant_shares.isNone
    /\ Len(participants) >= 2
    /\ tax_shares.exc = "ValueError"

\* C5: calculate_shares never completes on a split whose combined pre-tax
\* share is zero.
DegenerateSplitFails == calc = "done" => total_pretax.c # 0

\* C6: a calculate_shares that follows a successful one leaves
\* participant_shares, tax_shares and total_shares as the first left them.
IdempotentCalculation ==
    [][(calc = "done" /\ calls' = calls + 1) =>
          /\ calc' = "done"
          /\ _participant_shares' = _participant_shares
          /\ _tax_shares' = _tax_shares
          /\ total_shares' = total_shares]_vars

\* A second calculate_shares has succeeded on a split with items.
IdempotentCalculationWitness ==
    /\ calls = 2
    /\ calc = "done"
    /\ ret.op = "calculate_shares"
    /\ Truthy(common_items) /\ Truthy(separate_items)
    /\ \E p \in Range(participants) : _participant_shares.val[p].c # 0

\* The participants of the split are pairwise distinct, at least one, and
\* every key of separate_items is one of them.
WellFormedSplit ==
    /\ built
    /\ Len(participants) >= 1
    /\ Distinct(participants)
    /\ (~separate_items.isNone => DOMAIN separate_items.val \subseteq Range(participants))

ConstructionRejectsEmpty == built => Len(participants) > 0

\* C9: the share caches never hold a key that is no participant; after a
\* successful calculate_shares the three share maps have exactly the
\* participants as keys; and with a key of separate_items that is no
\* participant, calculate_shares does not succeed.
ParticipantMembership ==
    /\ ~_participant_shares.isNone =>
          DOMAIN _participant_shares.val \subseteq Range(participants)
    /\ ~_tax_shares.isNone => DOMAIN _tax_shares.val \subseteq Range(participants)
    /\ calc = "done" =>
          /\ DOMAIN _participant_shares.val = Range(participants)
          /\ DOMAIN _tax_shares.val = Range(participants)
          /\ DOMAIN total_shares.val = Range(participants)
          /\ (~separate_items.isNone =>
                 DOMAIN separate_items.val \subseteq Range(participants))

\* A calculate_shares that raised KeyError on a key outside participants,
\* after the separate items of a participant had been added.
ParticipantMembershipWitness ==
    /\ ret = Raised("calculate_shares", "KeyError")
    /\ Len(participants) >= 1
    /\ \E p \in Range(participants) : _participant_shares.val[p].c # 0
    /\ _tax_shares.isNone

---------------------------------------------------------------------------
\* Properties of the interfaces.

\* C1: the split that _process_items builds, from any receipt, any two or
\* more participants and any accepted split inputs, has pre-tax shares whose
\* sum is the sum of the receipt's item subtotals within 0.01.
ManualPretaxConservation ==
    (built /\ ~_participant_shares.isNone) =>
        WithinCent(total_pretax, SumSubtotals(receipt.items.val))

\* collect_split has returned a split of three participants in which one
\* item is common and another is shared by two of them.
ManualPretaxConservationWitness ==
    /\ pc = "returned"
    /\ Len(participants) = 3
    /\ common_items.val # <<>>
    /\ \E p, q \in Range(participants) :
          /\ p # q
          /\ separate_items.val[p] # <<>>
          /\ separate_items.val[p] = separate_items.val[q]
          /\ \E r \in Range(participants) : separate_items.val[r] = <<>>
          /\ separate_items.val[p][1].subtotal # receipt.items.val[1].subtotal
          /\ separate_items.val[p][1].subtotal # receipt.items.val[Len(receipt.items.val)].subtotal

\* sum of f[k] over the keys k in S
RECURSIVE SumOverKeys(_, _)
SumOverKeys(f, S) ==
    IF S = {} THEN Zero
    ELSE LET k == CHOOSE x \in S : TRUE
         IN  DecAdd(SumOverKeys(f, S \ {k}), SumSubtotals(f[k]))

\* The subtotals a split holds, common and separate together.
AccountedSubtotals(ci, si) ==
    DecAdd(IF ci.isNone THEN Zero ELSE SumSubtotals(ci.val),
           IF si.isNone THEN Zero ELSE SumOverKeys(si.val, DOMAIN si.val))

\* C10: a response accepted with needs_clarification = false carries a split
\* that accounts for every item of the receipt, and the split collect_split
\* returns conserves the receipt's pre-tax sum.
AcceptedSplitAccountsForReceipt ==
    built =>
        /\ WithinCent(AccountedSubtotals(common_items, separate_items),
                      SumSubtotals(receipt.items.val))
        /\ pc = "returned" =>
              WithinCent(total_pretax, SumSubtotals(receipt.items.val))

---------------------------------------------------------------------------
\* Properties of the conversation protocols.

Last(h) == h[Len(h)]

\* Steps in which the oracle answered an instruction, and its response: of
\* SmartCLISplitter, and of the bot for the user handled'.user.
SmartAnswered == pc = "instructions" /\ Len(chat_history') = Len(chat_history) + 2
SmartResponse == Last(chat_history').content
BotAnswered == sender' # sender /\ Last(history').role = "assistant"
BotResponse == Last(history').content

\* Steps that enter COMPLETE: collect_split returns, the bot's collect_split
\* ends the conversation.
SmartCompletes == pc = "instructions" /\ pc' = "returned"
BotCompletes ==
    /\ sender' # sender
    /\ conversation[handled'.user] = "COLLECTING_INSTRUCTIONS"
    /\ conversation'[handled'.user] = "END"

\* The BillSplitModel the step leaves is split result sr.
LeavesSplit(sr) ==
    /\ common_items' = sr.common_items
    /\ separate_items' = sr.separate_items
    /\ participants' = sr.participants

\* The split shown to a user is sr with the shares calculate_shares computes
\* for it against receipt rc.
ShowsCalculated(shown, sr, rc) ==
    /\ ~shown.isNone
    /\ shown.val.common_items = sr.common_items
    /\ shown.val.separate_items = sr.separate_items
    /\ shown.val.participants = sr.participants
    /\ \E o \in CalculateShares(sr.common_items, sr.separate_items,
                                sr.participants, rc, None, None) :
          /\ o.exc = ""
          /\ ~o.tshares.isNone
          /\ shown.val.participant_shares = o.pshares
          /\ shown.val.tax_shares = o.tshares
          /\ shown.val.total_shares =
                 TotalShares(sr.participants, o.pshares, o.tshares)

\* C11 as stated: every instruction turn whose response has
\* needs_clarification false calculates the response's split against the
\* receipt, enters COMPLETE and returns or displays that split with its tax
\* and total shares; and COMPLETE is entered on no other turn.
CompletionTransition ==
    /\ [][SmartAnswered /\ ~SmartResponse.needs_clarification =>
            /\ pc' = "returned"
            /\ LeavesSplit(SmartResponse.split_result)
            /\ calc' = "done" /\ tax_shares'.exc = "" /\ total_shares'.exc = ""]_vars
    /\ [][BotAnswered /\ ~BotResponse.needs_clarification =>
            /\ conversation'[handled'.user] = "END"
            /\ ShowsCalculated(handled'.shown, BotResponse.split_result,
                               user_data[handled'.user].receipt_data.val)]_vars
    /\ [][SmartCompletes => SmartAnswered /\ ~SmartResponse.needs_clarification]_vars
    /\ [][BotCompletes => BotAnswered /\ ~BotResponse.needs_clarification]_vars

\* C11 amended: every instruction turn whose response has needs_clarification
\* false runs calculate_shares on the response's split against the receipt;
\* when the calculation (and, in the bot, the display) succeeds the protocol
\* enters COMPLETE and returns or displays that split with its tax and total
\* shares, and when it raises the exception leaves the handler and no split
\* is returned or displayed.  Every split handed over in COMPLETE has its tax
\* and total shares, and COMPLETE is entered on no other turn.
CompletionTransitionUnlessRaised ==
    /\ [][SmartAnswered /\ ~SmartResponse.needs_clarification =>
            /\ calls' = calls + 1
            /\ LeavesSplit(SmartResponse.split_result)
            /\ \/ /\ pc' = "returned" /\ ret'.exc = ""
                  /\ calc' = "done" /\ tax_shares'.exc = "" /\ total_shares'.exc = ""
               \/ /\ pc' = "raised" /\ ret'.exc # ""
                  /\ calc' = "raised"]_vars
    /\ [][BotAnswered /\ ~BotResponse.needs_clarification =>
            \/ /\ conversation'[handled'.user] = "END"
               /\ handled'.exc = ""
               /\ ShowsCalculated(handled'.shown, BotResponse.split_result,
                                  user_data[handled'.user].receipt_data.val)
            \/ /\ handled'.exc # ""
               /\ handled'.shown.isNone
               /\ conversation' = conversation]_vars
    /\ [](pc = "returned" => calc = "done" /\ tax_shares.exc = "" /\ total_shares.exc = "")
    /\ [](~handled.shown.isNone =>
            /\ conversation[handled.user] = "END"
            /\ ~handled.shown.val.tax_shares.isNone
            /\ DOMAIN handled.shown.val.total_shares =
                   Range(handled.shown.val.participants))
    /\ [][SmartCompletes => SmartAnswered /\ ~SmartResponse.needs_clarification]_vars
    /\ [][BotCompletes => BotAnswered /\ ~BotResponse.needs_clarification]_vars

\* collect_split has returned a split completed after a clarification round.
CompletionTransitionWitness ==
    /\ pc = "returned"
    /\ calc = "done"
    /\ Len(chat_history) = 6
    /\ chat_history[4].content.needs_clarification
    /\ ~Last(chat_history).content.needs_clarification
    /\ Len(participants) >= 2
    /\ ~common_items.isNone

ParticipantCollection ==
    /\ [](\A u \in Users : Distinct(GetParticipants(u)))
    /\ [](pc \in {"names", "split", "smart_names", "instructions"} =>
              Distinct(participants))
    /\ [](\A u \in Users :
              conversation[u] \in {"WAITING_FOR_RECEIPT", "COLLECTING_INSTRUCTIONS"}
                  => Len(GetParticipants(u)) >= 2)
    /\ [](pc \in {"split", "instructions"} => Len(participants) >= 2)
    /\ [][\A u \in Users :
            /\ (conversation[u] = "COLLECTING_PARTICIPANTS"
                  /\ conversation'[u] \notin {"COLLECTING_PARTICIPANTS", "END"})
               => (/\ Len(GetParticipants(u)) >= 2
                   /\ conversation'[u] = "WAITING_FOR_RECEIPT"
                   /\ user_data' = user_data)
            /\ (conversation[u] = "COLLECTING_PARTICIPANTS"
                  /\ user_data'[u].participants # user_data[u].participants)
               => (\E name \in BotNames \ Range(GetParticipants(u)) :
                     user_data'[u].participants =
                         Some(Append(GetParticipants(u), name)))]_vars
    /\ [][handled' # handled /\ handled'.reply = "Error: already added" =>
            /\ user_data' = user_data
            /\ conversation' = conversation]_vars
    /\ [][(pc \in {"names", "smart_names"}) =>
            /\ (pc' # pc) =>
                  (Len(participants) >= 2 /\ participants' = participants)
            /\ (participants' # participants) =>
                  (\E name \in Names \ Range(participants) :
                      participants' = Append(participants, name))
            /\ (output' = "Error: already added") =>
                  (participants' = participants)]_vars

\* A user of the bot has typed a name twice and has been told so, has then
\* completed the list and gone on to the receipt.
ParticipantCollectionWitness ==
    \E u \in Users :
        /\ conversation[u] = "WAITING_FOR_RECEIPT"
        /\ Len(GetParticipants(u)) = 2
        /\ \E v \in Users \ {u} :
              /\ conversation[v] = "COLLECTING_PARTICIPANTS"
              /\ Len(GetParticipants(v)) = 1
              /\ handled = Handled(v, "handle_participant", "", "Error: already added")

\* C14: in every state of a conversation of the bot that is not terminal
\* (collecting participants, waiting for the receipt, collecting
\* instructions) the cancel command is handled, and handling it ends the
\* conversation at once: nothing is calculated or displayed, and the
\* user_data and the history are left as they are.
Cancellation ==
    /\ [](\A u \in Users :
              conversation[u] \in {"COLLECTING_PARTICIPANTS", "WAITING_FOR_RECEIPT",
                                   "COLLECTING_INSTRUCTIONS"}
                  => ENABLED cancel(u))
    /\ [][handled'.op = "cancel" /\ handled' # handled =>
            /\ conversation[handled'.user] \in
                   {"COLLECTING_PARTICIPANTS", "WAITING_FOR_RECEIPT",
                    "COLLECTING_INSTRUCTIONS"}
            /\ conversation' = [conversation EXCEPT ![handled'.user] = "END"]
            /\ handled'.exc = ""
            /\ handled'.reply = "Bill splitting cancelled."
            /\ handled'.shown.isNone
            /\ UNCHANGED <<user_data, history, sender>>]_vars

\* A user has cancelled after the bot asked them a clarification question.
CancellationWitness ==
    /\ handled.op = "cancel"
    /\ handled.user \in Users
    /\ conversation[handled.user] = "END"
    /\ Len(history) >= 4
    /\ Last(sender) = handled.user
    /\ Last(history).role = "assistant"
    /\ Last(history).content.needs_clarification

\* Steps in which the oracle could not be invoked on an instruction: the
\* chat model of SmartCLISplitter raised, the bot's provider gave up.
SmartFailed == pc = "instructions" /\ Len(chat_history') = Len(chat_history) + 1
BotFailed == sender' # sender /\ Last(history').role = "human"

\* C15: an instruction turn on which the oracle cannot be invoked within its
\* retry budget fails with an error and produces no split, and the
\* conversation is over: it awaits no further instruction.
OracleFailureTerminal ==
    /\ [][SmartFailed =>
            /\ pc' = "raised" /\ ret'.exc # ""
            /\ UNCHANGED <<splitVars, participants>>]_vars
    /\ [][BotFailed =>
            /\ handled'.op = "collect_split"
            /\ handled'.exc = "ValueError"
            /\ Len(handled'.attempts) = max_retries
            /\ handled'.shown.isNone
            /\ conversation'[handled'.user] # "COLLECTING_INSTRUCTIONS"]_vars

\* The entries of history h that the updates of user v added, s naming the
\* sender of each entry.
RECURSIVE OwnEntries(_, _, _)
OwnEntries(h, s, v) ==
    IF h = <<>> THEN <<>>
    ELSE IF Head(s) = v THEN <<Head(h)>> \o OwnEntries(Tail(h), Tail(s), v)
    ELSE OwnEntries(Tail(h), Tail(s), v)

\* C16: the history an instruction turn of a user leaves for the provider
\* holds entries of that user's conversation only, and the turn leaves the
\* entries of every other user's conversation in place.
SessionIsolation ==
    /\ [][sender' # sender =>
            \A i \in DOMAIN sender' : sender'[i] = handled'.user]_vars
    /\ [][sender' # sender =>
            \A v \in Users \ {handled'.user} :
                OwnEntries(history', sender', v) = OwnEntries(history, sender, v)]_vars

---------------------------------------------------------------------------
\* Properties of the manual split strings.

HasComma(str) == \E i \in DOMAIN str : str[i] = ","
NonBlanks(str) == {i \in DOMAIN str : str[i] # " "}

\* _get_item_split has returned indices for the response typed.
Accepted == ret.op = "_get_item_split" /\ ret.exc = ""
\* _get_item_split has answered the response typed with its error.
Rejected == ret.op = "" /\ output = "Error: Invalid split format"

\* C17: an empty response selects all participants; a response with a comma
\* is split on the commas and each piece is read as an index; a response
\* without a comma is read one character, one single-digit index, at a time,
\* so that with two participants "12" and "1,2" both select 1 and 2 and "13"
\* is rejected, and no response without a comma selects an index of 10 or
\* more.
ManualParsing ==
    (Accepted \/ Rejected) =>
        /\ typed = <<>> => Accepted /\ ret.val = valid_indices
        /\ (typed # <<>> /\ ~HasComma(typed)) =>
              /\ Accepted <=>
                    /\ NonBlanks(typed) # {}
                    /\ \A i \in NonBlanks(typed) :
                          /\ typed[i] \in Digits
                          /\ DigitValue(typed[i]) \in Range(valid_indices)
              /\ Accepted =>
                    /\ Range(ret.val) = {DigitValue(typed[i]) : i \in NonBlanks(typed)}
                    /\ \A k \in DOMAIN ret.val : ret.val[k] < 10
        /\ HasComma(typed) =>
              LET pieces == SplitOnComma(typed)
                  given == {i \in DOMAIN pieces : NonBlanks(pieces[i]) # {}}
              IN  /\ Accepted <=>
                        /\ given # {}
                        /\ \A i \in given :
                              /\ IsInt(Strip(pieces[i]))
                              /\ IntOf(Strip(pieces[i])) \in Range(valid_indices)
                  /\ Accepted =>
                        Range(ret.val) = {IntOf(Strip(pieces[i])) : i \in given}
        /\ Len(valid_indices) = 2 =>
              /\ typed = <<"1", "2">> => Accepted /\ ret.val = <<1, 2>>
              /\ typed = <<"1", ",", "2">> => Accepted /\ ret.val = <<1, 2>>
              /\ typed = <<"1", "3">> => Rejected

\* With two participants the response "12" has been read as the indices 1
\* and 2.
ManualParsingWitness ==
    /\ pc = "prompt"
    /\ Len(valid_indices) = 2
    /\ typed = <<"1", "2">>
    /\ ret = Returned("_get_item_split", <<1, 2>>)

\* The indices a response names, as typed: the stripped pieces between the
\* commas that are not empty, or without a comma the characters that are not
\* blank.
TypedIndices(str) ==
    IF HasComma(str)
    THEN LET pieces == SplitOnComma(str)
         IN  {Strip(pieces[i]) : i \in {j \in DOMAIN pieces : NonBlanks(pieces[j]) # {}}}
    ELSE {<<str[i]>> : i \in NonBlanks(str)}

\* C18: a response that names an index that is not a number or not in 1..n
\* is rejected: the error is shown, the same item is prompted again and
\* nothing is assigned.  Every accepted response yields a list of indices
\* that is not empty, holds no index twice and holds indices of 1..n only,
\* so that the item is charged to at least one participant and to none of
\* them twice.
ManualInputValidation ==
    /\ []((pc = "prompt" /\ (Accepted \/ Rejected)) =>
            /\ (\E part \in TypedIndices(typed) :
                    ~IsInt(part) \/ IntOf(part) \notin 1..Len(participants))
               => Rejected
            /\ Rejected => item_idx = 1 /\ common_items = None /\ separate_items = None
            /\ Accepted =>
                  /\ ret.val # <<>>
                  /\ Distinct(ret.val)
                  /\ \A k \in DOMAIN ret.val : ret.val[k] \in 1..Len(participants))
    /\ [][(pc = "split" /\ output' = "Error: Invalid split format") =>
            UNCHANGED <<pc, item_idx, common_items, separate_items, splitVars>>]_vars
    /\ [][(pc = "split" /\ output' # "Error: Invalid split format") =>
            LET item == receipt.items.val[item_idx]
                sharers == {p \in Range(participants) :
                               Len(separate_items'.val[p]) > Len(separate_items.val[p])}
            IN  \/ /\ common_items'.val = Append(common_items.val, item)
                   /\ separate_items' = separate_items
                \/ /\ common_items' = common_items
                   /\ sharers # {}
                   /\ \A p \in sharers :
                         separate_items'.val[p] =
                             Append(separate_items.val[p],
                                    [item EXCEPT !.subtotal =
                                        ShareAmount(item.subtotal,
                                                    Cardinality(sharers))])]_vars

\* A response that names an index twice has been accepted as that one index.
ManualInputValidationWitness ==
    /\ pc = "prompt"
    /\ Len(participants) = 3
    /\ typed = <<"2", ",", "2">>
    /\ ret = Returned("_get_item_split", <<2>>)

---------------------------------------------------------------------------
\* Properties of the receipt data models.

Logged(about) == \E i \in DOMAIN log : log[i] = Warning(ret.val.args.name, about)

\* C19: constructing an ItemModel whose quantity, unit price or subtotal is
\* not positive, or whose quantity times unit price is more than 0.01 away
\* from its subtotal, succeeds with the values as given, and a warning naming
\* the item is logged for each of these conditions.
ItemValidationWarns ==
    ret.op \in {"ItemModel", "billsplitter.ItemModel"} =>
        LET item == ret.val.args
        IN  /\ ret.exc = ""
            /\ ret.val.model = Some(item)
            /\ (~item.quantity.isNone /\ item.quantity.val <= 0)
                   => Logged("invalid quantity")
            /\ (~item.unit_price.isNone /\ DecLeq(item.unit_price.val, Zero))
                   => Logged("invalid unit price")
            /\ DecLeq(item.subtotal, Zero) => Logged("invalid subtotal")
            /\ (/\ ~item.quantity.isNone /\ ~item.unit_price.isNone
                /\ ~WithinCent(DecMul(Dec(item.quantity.val, 0), item.unit_price.val),
                               item.subtotal))
                   => Logged("subtotal doesn't match")

\* C20: constructing a TaxModel with a negative total or with a rate outside
\* 0..100 succeeds with the total and the rate as given, and a warning is
\* logged for each of the two.
TaxValidationWarns ==
    ret.op \in {"TaxModel", "billsplitter.TaxModel"} =>
        LET tax == ret.val.args
        IN  /\ ret.exc = ""
            /\ ret.val.model = Some(tax)
            /\ (~tax.rate.isNone /\ (tax.rate.val < 0 \/ tax.rate.val > 100))
                   => Logged("invalid rate")
            /\ DecLess(tax.total, Zero) => Logged("negative amount")

---------------------------------------------------------------------------
\* Properties of the presentation.

\* C21: once a completed split has been displayed, the display has not
\* failed, and the total-mismatch warning is the last thing printed exactly
\* when the sum of all total_shares is more than 0.01 away from the
\* receipt's stated total.
PresentationValidationWarning ==
    ret.op = "display_split" =>
        /\ ret.exc = ""
        /\ ~receipt.total.isNone
        /\ (output = "WARNING: Total bill amount differs from receipt total")
               <=> ~WithinCent(ret.val, receipt.total.val)

---------------------------------------------------------------------------
\* Properties of the transcript.

\* h is the 2-entry seed followed by (human, assistant) pairs.
SeedThenPairs(h) ==
    /\ Len(h) >= 2 /\ Len(h) % 2 = 0
    /\ h[1].role = "system" /\ h[2].role = "human"
    /\ \A i \in 3..Len(h) : h[i].role = IF i % 2 = 1 THEN "human" ELSE "assistant"

\* old is kept as the front of new.
KeptInFront(old, new) ==
    Len(old) <= Len(new) /\ SubSeq(new, 1, Len(old)) = old

\* C22: a turn the oracle answers leaves every earlier entry of the
\* transcript in place and adds the instruction and then the response behind
\* them, so that the transcript is the seed followed by one (human,
\* assistant) pair for each answered turn.
TurnOrdering ==
    /\ [][SmartAnswered =>
            /\ KeptInFront(chat_history, chat_history')
            /\ chat_history'[Len(chat_history) + 1].role = "human"
            /\ Last(chat_history').role = "assistant"
            /\ SeedThenPairs(chat_history')]_vars
    /\ [][BotAnswered =>
            /\ KeptInFront(history, history')
            /\ history'[Len(history') - 1].role = "human"
            /\ history'[Len(history') - 1].content \in BotInstructions
            /\ SeedThenPairs(history')]_vars

\* The step is the first instruction turn of u's conversation: the update
\* handled before it was the receipt photo that opened the instructions.
FirstTurn(u) ==
    /\ handled.user = u /\ handled.op = "handle_receipt_photo"
    /\ conversation[u] = "COLLECTING_INSTRUCTIONS"
    /\ handled'.user = u /\ handled'.op = "collect_split"

\* C23: the transcript of the first oracle call of a conversation is the
\* system prompt, then the receipt and the participants of that
\* conversation, then the instruction of the call and nothing else; the call
\* adds at most the response to it.
TranscriptSeeding ==
    /\ [][(pc = "smart_names" /\ pc' = "instructions") =>
            chat_history' = InitialChatHistory(receipt, participants)]_vars
    /\ [][\A u \in Users : FirstTurn(u) =>
            /\ KeptInFront(InitialChatHistory(user_data[u].receipt_data.val,
                                              user_data[u].participants.val),
                           history')
            /\ Len(history') \in {3, 4}
            /\ history'[3].role = "human"
            /\ \A i \in DOMAIN sender' : sender'[i] = u]_vars

---------------------------------------------------------------------------
\* Properties of the manual assignment.

\* A step in which _process_items has assigned the item it asked about.
ItemAssigned == pc = "split" /\ (item_idx' # item_idx \/ pc' # "split")

ReceiptReadOnly ==
    /\ [][receipt' = receipt]_vars
    /\ [][(calls' # calls /\ pc # "instructions") =>
            participants' = participants]_vars
    /\ [][(calls' # calls /\ built) =>
            UNCHANGED <<common_items, separate_items, participants>>]_vars

\* collect_split has returned a split in which a participant holds a copy
\* of a receipt item at another subtotal than the receipt states, and the
\* shares are calculated.
ReceiptReadOnlyWitness ==
    /\ pc = "returned"
    /\ calc = "done"
    /\ \E p \in Range(participants), i \in DOMAIN receipt.items.val :
          /\ separate_items.val[p] # <<>>
          /\ separate_items.val[p][1].name = receipt.items.val[i].name
          /\ \A j \in DOMAIN receipt.items.val :
                separate_items.val[p][1].subtotal # receipt.items.val[j].subtotal

---------------------------------------------------------------------------
\* Properties of the provider.

\* C26: an instruction turn calls the oracle at least once and at most
\* max_retries times; every call but the last has failed; the turn is
\* answered when its last call succeeded, and it raises ValueError exactly
\* when it made max_retries calls and the last of them failed too.
BoundedRetry ==
    [][(BotAnswered \/ BotFailed) =>
        LET made == handled'.attempts
        IN  /\ Len(made) \in 1..max_retries
            /\ \A k \in 1..(Len(made) - 1) : made[k] = "failed"
            /\ BotAnswered <=> (Last(made) = "answered")
            /\ BotFailed <=> (Len(made) = max_retries /\ Last(made) = "failed")
            /\ BotFailed <=> (handled'.exc = "ValueError")]_vars

\* The oracle has answered a turn at its last permitted call.
BoundedRetryWitness ==
    /\ handled.op = "collect_split"
    /\ Len(handled.attempts) = max_retries
    /\ Last(handled.attempts) = "answered"
    /\ Last(history).role = "assistant"

---------------------------------------------------------------------------
\* Properties of the clarification loop's termination.

\* The oracle's last call returned a response with needs_clarification ==
\* false; the oracle's last call failed.
SmartHeardComplete ==
    /\ Len(chat_history) > 2
    /\ Last(chat_history).role = "assistant"
    /\ ~Last(chat_history).content.needs_clarification
SmartCallFailed == Len(chat_history) > 2 /\ Last(chat_history).role = "human"

\* The loop is left only on a response that needs no clarification or on a
\* failed call, and a response that needs clarification keeps it going.
LoopEndsOnlyByAnswer ==
    /\ [][(pc = "instructions" /\ pc' # "instructions") =>
            (SmartFailed \/ (SmartAnswered /\ ~SmartResponse.needs_clarification))]_vars
    /\ [][(SmartAnswered /\ SmartResponse.needs_clarification) =>
            pc' = "instructions"]_vars

---------------------------------------------------------------------------
\* Properties of the bot's receipt step.

\* C28: a photo sent while the bot waits for the receipt is either
\* extracted, stored for its user and answered with the request for
\* instructions, the conversation moving to COLLECTING_INSTRUCTIONS, or it
\* is answered with an error (format not supported, extraction failed),
\* nothing is stored and the conversation stays in WAITING_FOR_RECEIPT; and
\* a conversation is in COLLECTING_INSTRUCTIONS only with at least two
\* participants and a stored receipt.
ReceiptStep ==
    /\ [][\A u \in Users :
            (conversation[u] = "WAITING_FOR_RECEIPT"
             /\ handled'.user = u /\ handled'.op = "handle_receipt_photo") =>
                /\ handled'.exc = ""
                /\ \/ /\ handled'.reply =
                            "Please describe how you want to split the bill."
                      /\ ~user_data'[u].receipt_data.isNone
                      /\ user_data'[u].receipt_data.val \in BotReceipts
                      /\ conversation'[u] = "COLLECTING_INSTRUCTIONS"
                   \/ /\ handled'.reply \in {"Unsupported image format",
                                              "Error processing receipt"}
                      /\ user_data'[u] = user_data[u]
                      /\ conversation'[u] = "WAITING_FOR_RECEIPT"]_vars
    /\ [](\A u \in Users :
            conversation[u] = "COLLECTING_INSTRUCTIONS" =>
                /\ ~user_data[u].participants.isNone
                /\ Len(user_data[u].participants.val) >= 2
                /\ ~user_data[u].receipt_data.isNone)

---------------------------------------------------------------------------
\* Properties of the provider's history.

\* The history the provider was called on in the turn just handled: all of
\* history' for a failed turn, all but the response for an answered one.
AtCall == IF BotAnswered THEN SubSeq(history', 1, Len(history') - 1) ELSE history'

\* C29: the history of every oracle call is the seed followed by entries
\* that alternate between human and assistant, beginning and ending with a
\* human entry: the one unanswered instruction of the turn.
HistoryAlternates ==
    [][(BotAnswered \/ BotFailed) =>
        /\ Len(AtCall) >= 3 /\ Len(AtCall) % 2 = 1
        /\ \A i \in 3..Len(AtCall) :
              AtCall[i].role = IF i % 2 = 1 THEN "human" ELSE "assistant"]_vars

---------------------------------------------------------------------------
\* Properties of the first command-line splitter.

\* C30: once _display_totals of billsplitter's CLISplitter has computed the
\* pre-tax totals of the participants, for any receipt (two items of one
\* name included) and any accepted responses (one that repeats an index
\* included), the totals sum to the sum of the subtotals of the receipt's
\* items within 0.01.
LegacyPretaxConservation ==
    (pc = "displayed" /\ ret.op = "split_bill" /\ ~_participant_shares.isNone)
        => WithinCent(SumValues(_participant_shares.val, participants),
                      SumSubtotals(receipt.items.val))

====
